---- MODULE Spec2Model ----
(***************************************************************************)
(* BitGrid: a grid of 4-input/4-output LUT cells under a two-phase         *)
(* checkerboard schedule, its Manhattan router, bitstream codec and        *)
(* BGCF wire protocol.                                                     *)
(*                                                                         *)
(* Directions are indexed as in the source: N=0, E=1, S=2, W=3.            *)
(* Cells are pairs <<x, y>>; four-element lists are functions over 0..3.   *)
(***************************************************************************)
EXTENDS Integers, Sequences, FiniteSets, TLC

VARIABLES
    \* ---- LUTOnlyEmulator (bitgrid/lut_only.py) ----
    luts,        \* LUTGrid.cells: <<x,y>> -> [0..3 -> 16-bit LUT]
    outs,        \* LUTOnlyEmulator.outs: <<x,y>> -> [0..3 -> bit]
    cycle,       \* LUTOnlyEmulator._cycle
    edge_out,    \* value returned by the latest step()
    updated,     \* coordinates in the `updates` list of the latest step()
    hist,        \* edge inputs of the steps taken since construction/reset
    \* ---- bitstream codec (bitgrid/bitstream.py) ----
    bs_prog,     \* the Program the codec packs from and applies to
    bs_data,     \* the bytes returned by the latest pack call
    bs_call,     \* the latest call: its name, arguments and result
    bs_src,      \* the Program as it was when bs_data was packed
    bs_pre,      \* the Program as it was before the latest apply
    \* ---- BGCF wire protocol (bitgrid/protocol.py) ----
    pr_sent,     \* the arguments of pack_frame: msg_type, payload, seq, flags
    pr_buf,      \* the receive buffer handed to try_parse_frame
    pr_call,     \* the latest call: its name and result
    \* ---- ManhattanRouter (bitgrid/router.py) ----
    router,      \* the router object: W, H, occ, _route_cells, _edge_fanout_index
    rt_prog,     \* coordinates of the cells the caller collected in prog.cells
    rt_call,     \* the latest call on the router: its name, arguments and result
    \* ---- route_program (bitgrid/router.py) ----
    rp_prog,     \* the Program handed to route_program
    rp_call,     \* the latest call: its name and result
    \* ---- NeighborBarrier (bitgrid/barrier.py) ----
    barrier,     \* the barrier object: state, expect, neighbor_flags, _local_done
    bar_call,    \* the latest call on the barrier: its name, arguments and result
    \* ---- TCP server (bitgrid/cli/serve_tcp.py) ----
    servers,     \* per server process: prog, emu._cycle, current_inputs, links, lock
    conns,       \* per accepted connection: its socket queues and its handler thread
    \* ---- a receive loop on try_parse_frame (bitgrid/cli/serve_tcp.py) ----
    fr_sent,     \* what the sender wrote: leading bytes and the frames after them
    fr_wire,     \* bytes written and not yet returned by recv()
    fr_buf,      \* the receiver's buf
    fr_out,      \* the frames try_parse_frame has returned, in order
    \* ---- physicalize_to_edges (bitgrid/physicalize.py) ----
    ph_prog,     \* the logical Program and the sides chosen for its buses
    ph_call,     \* the latest call: its name and result
    ph_emu       \* the Emulator and the LUTOnlyEmulator run side by side

emuVars == <<luts, outs, cycle, edge_out, updated, hist>>
bsVars == <<bs_prog, bs_data, bs_call, bs_src, bs_pre>>
prVars == <<pr_sent, pr_buf, pr_call>>
rtVars == <<router, rt_prog, rt_call>>
rpVars == <<rp_prog, rp_call>>
barVars == <<barrier, bar_call>>
srvVars == <<servers, conns>>
frVars == <<fr_sent, fr_wire, fr_buf, fr_out>>
phVars == <<ph_prog, ph_call, ph_emu>>

vars == <<emuVars, bsVars, prVars, rtVars, rpVars, barVars, srvVars, frVars, phVars>>
notEmuVars == <<bsVars, prVars, rtVars, rpVars, barVars, srvVars, frVars, phVars>>
notBsVars == <<emuVars, prVars, rtVars, rpVars, barVars, srvVars, frVars, phVars>>
notPrVars == <<emuVars, bsVars, rtVars, rpVars, barVars, srvVars, frVars, phVars>>
notRtVars == <<emuVars, bsVars, prVars, rpVars, barVars, srvVars, frVars, phVars>>
notRpVars == <<emuVars, bsVars, prVars, rtVars, barVars, srvVars, frVars, phVars>>
notBarVars == <<emuVars, bsVars, prVars, rtVars, rpVars, srvVars, frVars, phVars>>
notSrvVars == <<emuVars, bsVars, prVars, rtVars, rpVars, barVars, frVars, phVars>>
notFrVars == <<emuVars, bsVars, prVars, rtVars, rpVars, barVars, srvVars, phVars>>
notPhVars == <<emuVars, bsVars, prVars, rtVars, rpVars, barVars, srvVars, frVars>>

\* each component is checked alone; the variables of the others then rest here
EmuIdle ==
    /\ luts = <<>>
    /\ outs = <<>>
    /\ cycle = 0
    /\ edge_out = <<>>
    /\ updated = {}
    /\ hist = <<>>

BsIdle ==
    /\ bs_prog = <<>>
    /\ bs_data = <<>>
    /\ bs_call = <<>>
    /\ bs_src = <<>>
    /\ bs_pre = <<>>

PrIdle ==
    /\ pr_sent = <<>>
    /\ pr_buf = <<>>
    /\ pr_call = <<>>

RtIdle ==
    /\ router = <<>>
    /\ rt_prog = <<>>
    /\ rt_call = <<>>
    /\ rp_prog = <<>>
    /\ rp_call = <<>>

BarIdle ==
    /\ barrier = <<>>
    /\ bar_call = <<>>

FrIdle ==
    /\ fr_sent = <<>>
    /\ fr_wire = <<>>
    /\ fr_buf = <<>>
    /\ fr_out = <<>>

PhIdle ==
    /\ ph_prog = <<>>
    /\ ph_call = <<>>
    /\ ph_emu = <<>>

SrvIdle ==
    /\ servers = <<>>
    /\ conns = <<>>

(***************************************************************************)
(* Bounds                                                                  *)
(***************************************************************************)
\* the grid of tests/test_lut_only_pass.py: make_pass_grid(2, 3)
EmuW == 2
EmuH == 3
\* steps taken between two resets
MaxCycle == 3
\* half the side of the square grids that are routed on: ManhattanRouter
\* takes even dimensions only
GridHalf == 2
\* wiring calls made on one router
MaxWires == 2
\* epochs a neighbour reports, and calls made on one barrier
MaxEpoch == 1
MaxBarCalls == 6
\* frames the clients of the servers write, over all connections
MaxFrames == 3
\* connections one run opens, links included
MaxConns == 3
\* steps both machines are run for after a Program was physicalized
MaxPhSteps == 5

(***************************************************************************)
(* Bit helpers                                                             *)
(***************************************************************************)
\* F(e) with e evaluated once, before F uses it: Python's call by value
Strict(F(_), e) == CHOOSE r \in {F(v) : v \in {e}} : TRUE

Pow2(n) == 2 ^ n

\* (v >> i) & 1
Bit(v, i) == (v \div Pow2(i)) % 2

Dirs == {"N", "E", "S", "W"}
pin_map == [d \in Dirs |-> CASE d = "N" -> 0 [] d = "E" -> 1 [] d = "S" -> 2 [] d = "W" -> 3]
opposite == [d \in Dirs |-> CASE d = "N" -> "S" [] d = "E" -> "W" [] d = "S" -> "N" [] d = "W" -> "E"]
delta == [d \in Dirs |-> CASE d = "N" -> <<0, -1>> [] d = "E" -> <<1, 0>>
                           [] d = "S" -> <<0, 1>> [] d = "W" -> <<-1, 0>>]

GridCells(w, h) == (0 .. w - 1) \X (0 .. h - 1)

(***************************************************************************)
(* route_luts(out_dir, in_pin): output out_dir copies input in_pin.        *)
(***************************************************************************)
RECURSIVE SumBits(_, _)
\* OR of (val << idx) for idx = k..15, where val is bit `pin` of idx
SumBits(pin, k) ==
    IF k > 15 THEN 0 ELSE Bit(k, pin) * Pow2(k) + SumBits(pin, k + 1)

route_luts(out_dir, in_pin) ==
    [i \in 0 .. 3 |-> IF i = pin_map[out_dir] THEN SumBits(pin_map[in_pin], 0) ELSE 0]

(***************************************************************************)
(* LUTOnlyEmulator                                                         *)
(***************************************************************************)
EmuCells == GridCells(EmuW, EmuH)

ZeroOuts == [c \in EmuCells |-> [i \in 0 .. 3 |-> 0]]

\* a plausible slip: the index bits in the order W,S,E,N
eval_cell_reversed(cell_luts, in_bits) ==
    LET idx == in_bits[3] + 2 * in_bits[2] + 4 * in_bits[1] + 8 * in_bits[0]
    IN  [i \in 0 .. 3 |-> Bit(cell_luts[i], idx)]

\* _eval_cell: idx = N | E<<1 | S<<2 | W<<3, out[i] = (luts[i] >> idx) & 1
eval_cell(cell_luts, in_bits) ==
    LET idx == in_bits[0] + 2 * in_bits[1] + 4 * in_bits[2] + 8 * in_bits[3]
    IN  [i \in 0 .. 3 |-> Bit(cell_luts[i], idx)]

\* Python's None, for an absent neighbour
None == -1

\* a plausible slip: fetch the neighbour's output of the same direction
neighbor_out_same(o, x, y, dir_name) ==
    LET nx == x + delta[dir_name][1]
        ny == y + delta[dir_name][2]
    IN  IF 0 <= nx /\ nx < EmuW /\ 0 <= ny /\ ny < EmuH
        THEN o[<<nx, ny>>][pin_map[dir_name]]
        ELSE None

\* _neighbor_out: the opposite-direction output of the neighbour, or None
neighbor_out(o, x, y, dir_name) ==
    LET nx == x + delta[dir_name][1]
        ny == y + delta[dir_name][2]
    IN  IF 0 <= nx /\ nx < EmuW /\ 0 <= ny /\ ny < EmuH
        THEN o[<<nx, ny>>][pin_map[opposite[dir_name]]]
        ELSE None

\* the four input bits step() gathers for cell (x,y) from outputs o
gather_inputs(o, ein, x, y) ==
    LET nN == neighbor_out(o, x, y, "N")
        nE == neighbor_out(o, x, y, "E")
        nS == neighbor_out(o, x, y, "S")
        nW == neighbor_out(o, x, y, "W")
        inN == IF nN = None /\ y = 0 THEN ein.N[x] ELSE nN
        inE == IF nE = None /\ x = EmuW - 1 THEN ein.E[y] ELSE nE
        inS == IF nS = None /\ y = EmuH - 1 THEN ein.S[x] ELSE nS
        inW == IF nW = None /\ x = 0 THEN ein.W[y] ELSE nW
    IN  [i \in 0 .. 3 |-> CASE i = 0 -> inN [] i = 1 -> inE [] i = 2 -> inS [] i = 3 -> inW]

\* a plausible slip: the parities of the two phases exchanged
active_cells_swapped(c) ==
    {xy \in GridCells(EmuW, EmuH) : (xy[1] + xy[2]) % 2 # c % 2}

\* cells step() evaluates when the counter is c
active_cells(c) ==
    LET phaseA == (c % 2 = 0)
    IN  {xy \in EmuCells :
            LET is_even == ((xy[1] + xy[2]) % 2 = 0)
            IN  ~((phaseA /\ ~is_even) \/ (~phaseA /\ is_even))}

\* outs after the commit loop: every update is computed from the pre-step outs
step_outs(g, o, c, ein) ==
    [xy \in EmuCells |->
        IF xy \in active_cells(c)
        THEN eval_cell(g[xy], gather_inputs(o, ein, xy[1], xy[2]))
        ELSE o[xy]]

collect_edge_out(o) ==
    [N |-> [x \in 0 .. EmuW - 1 |-> o[<<x, 0>>][0]],
     E |-> [y \in 0 .. EmuH - 1 |-> o[<<EmuW - 1, y>>][1]],
     S |-> [x \in 0 .. EmuW - 1 |-> o[<<x, EmuH - 1>>][2]],
     W |-> [y \in 0 .. EmuH - 1 |-> o[<<0, y>>][3]]]

ZeroEdge ==
    [N |-> [x \in 0 .. EmuW - 1 |-> 0],
     E |-> [y \in 0 .. EmuH - 1 |-> 0],
     S |-> [x \in 0 .. EmuW - 1 |-> 0],
     W |-> [y \in 0 .. EmuH - 1 |-> 0]]

\* the LUT grids the emulator is constructed on
PassGrid == [c \in EmuCells |-> route_luts("E", "W")]
DefaultGrid == [c \in EmuCells |-> [i \in 0 .. 3 |-> 0]]
\* N = parity of the inputs, E = W input, S = N input, W = NOR of the inputs
MixGrid == [c \in EmuCells |->
              [i \in 0 .. 3 |-> CASE i = 0 -> 27030 [] i = 1 -> 65280
                                   [] i = 2 -> 43690 [] i = 3 -> 1]]
\* S = E input on even cells, N = S input and E = N input on odd cells
CheckerGrid == [c \in EmuCells |->
                  IF (c[1] + c[2]) % 2 = 0 THEN route_luts("S", "E")
                  ELSE [i \in 0 .. 3 |-> CASE i = 0 -> 61680 [] i = 1 -> 43690
                                           [] i = 2 -> 0 [] i = 3 -> 0]]
LutConfigs == {PassGrid, DefaultGrid, MixGrid, CheckerGrid}

\* edge inputs offered to step(): any W vector, the other sides all 0 or all 1
EdgeInputs ==
    {[N |-> [x \in 0 .. EmuW - 1 |-> b],
      E |-> [y \in 0 .. EmuH - 1 |-> b],
      S |-> [x \in 0 .. EmuW - 1 |-> b],
      W |-> w] : b \in {0, 1}, w \in [0 .. EmuH - 1 -> {0, 1}]}

\* the state reset() establishes (and __init__ before it)
reset_state == [outs |-> ZeroOuts, cycle |-> 0]

EmuInit ==
    /\ luts \in LutConfigs
    /\ outs = ZeroOuts
    /\ cycle = 0
    /\ edge_out = ZeroEdge
    /\ updated = {}
    /\ hist = <<>>
    /\ BsIdle
    /\ PrIdle
    /\ RtIdle
    /\ BarIdle
    /\ FrIdle
    /\ PhIdle
    /\ SrvIdle

reset ==
    /\ outs' = reset_state.outs
    /\ cycle' = reset_state.cycle
    /\ hist' = <<>>
    /\ edge_out' = ZeroEdge
    /\ updated' = {}
    /\ UNCHANGED luts
    /\ UNCHANGED notEmuVars

step(ein) ==
    /\ cycle < MaxCycle
    /\ updated' = active_cells(cycle)
    /\ outs' = step_outs(luts, outs, cycle, ein)
    /\ cycle' = cycle + 1
    /\ edge_out' = collect_edge_out(outs')
    /\ hist' = Append(hist, ein)
    /\ UNCHANGED luts
    /\ UNCHANGED notEmuVars

EmuNext ==
    \/ \E ein \in EdgeInputs : step(ein)
    \/ reset

SpecEmu == EmuInit /\ [][EmuNext]_vars

(***************************************************************************)
(* step() on edge inputs of any shape: a dict that names some of the sides *)
(* and gives each a list of any length (None counts as the empty dict)     *)
(***************************************************************************)
\* the list a side of the grid takes: W and E have one entry per row
SideLen(d) == IF d \in {"N", "S"} THEN EmuW ELSE EmuH

\* n_in, e_in, s_in, w_in: ein.get(side, [0] * length)
edge_lists(ein) ==
    [d \in Dirs |-> IF d \in DOMAIN ein THEN ein[d]
                    ELSE [i \in 0 .. SideLen(d) - 1 |-> 0]]

\* the list positions the gather loop indexes when the counter is c: cell
\* (x,y) reads n_in[x], e_in[y], s_in[x], w_in[y] where it has no neighbour
edge_reads(c) ==
    UNION {{<<d, IF d \in {"N", "S"} THEN xy[1] ELSE xy[2]>> :
              d \in {dd \in Dirs : neighbor_out(ZeroOuts, xy[1], xy[2], dd) = None}} :
           xy \in active_cells(c)}

\* an index past the end of a Python list raises IndexError
raises_IndexError(el, c) ==
    \E rd \in edge_reads(c) : rd[2] \notin DOMAIN el[rd[1]]

\* all lists of bits of length 0 .. n
BitLists(n) == UNION {[0 .. k - 1 -> {0, 1}] : k \in 0 .. n}

\* edge inputs offered: no side at all, or W or N alone with a list that is
\* complete or short
PartialEdgeInputs ==
    {[d \in {} |-> <<>>]}
    \cup {[d \in {"W"} |-> l] : l \in BitLists(EmuH)}
    \cup {[d \in {"N"} |-> l] : l \in BitLists(EmuW)}

\* step(edge_in): the exception leaves the loop before anything is committed
step_edge_in(ein) ==
    /\ Len(hist) < MaxCycle
    /\ hist' = Append(hist, ein)
    /\ \E el \in {edge_lists(ein)} :
          IF raises_IndexError(el, cycle)
          THEN /\ edge_out' = [error |-> "IndexError"]
               /\ updated' = {}
               /\ UNCHANGED <<outs, cycle>>
          ELSE /\ updated' = active_cells(cycle)
               /\ outs' = step_outs(luts, outs, cycle, el)
               /\ cycle' = cycle + 1
               /\ edge_out' = collect_edge_out(outs')
    /\ UNCHANGED luts
    /\ UNCHANGED notEmuVars

EmuEdgeNext ==
    \/ \E ein \in PartialEdgeInputs : step_edge_in(ein)
    \/ reset

SpecEmuEdge == EmuInit /\ [][EmuEdgeNext]_vars

(***************************************************************************)
(* Byte helpers (struct.pack little-endian fields, binascii.crc32)         *)
(***************************************************************************)
RECURSIVE XorBits(_, _, _)
\* a ^ b on the low n bits
XorBits(a, b, n) ==
    IF n = 0 THEN 0
    ELSE ((a + b) % 2) + 2 * XorBits(a \div 2, b \div 2, n - 1)

\* 32-bit words are pairs <<high 16 bits, low 16 bits>>
Word32(v) == <<v \div 65536, v % 65536>>
\* a ^ b by 4-bit digits
XorNibble == [a \in 0 .. 15 |-> [b \in 0 .. 15 |-> XorBits(a, b, 4)]]
Xor8(a, b) == XorNibble[a % 16][b % 16] + 16 * XorNibble[a \div 16][b \div 16]
Xor16(a, b) == Xor8(a % 256, b % 256) + 256 * Xor8(a \div 256, b \div 256)
Xor32(a, b) == <<Xor16(a[1], b[1]), Xor16(a[2], b[2])>>
Shr32(a, n) == <<a[1] \div Pow2(n), (a[2] \div Pow2(n)) + (a[1] % Pow2(n)) * Pow2(16 - n)>>

CrcPoly == <<60856, 33568>>   \* 0xEDB88320, the reflected IEEE polynomial
Ones32 == <<65535, 65535>>    \* 0xFFFFFFFF

RECURSIVE CrcShift(_, _)
\* k rounds of: c = (c >> 1) ^ poly if c & 1 else c >> 1
CrcShift(c, k) ==
    IF k = 0 THEN c
    ELSE CrcShift(IF c[2] % 2 = 1 THEN Xor32(Shr32(c, 1), CrcPoly) ELSE Shr32(c, 1), k - 1)

CrcTable == [n \in 0 .. 255 |-> CrcShift(<<0, n>>, 8)]

RECURSIVE CrcUpdate(_, _, _, _)
\* the CRC register c after bytes lo..hi of data (halved, to bound the depth)
CrcUpdate(c, data, lo, hi) ==
    IF lo > hi THEN c
    ELSE IF lo = hi
         THEN Xor32(CrcTable[Xor8(c[2] % 256, data[lo])], Shr32(c, 8))
         ELSE Strict(LAMBDA c2 : CrcUpdate(c2, data, ((lo + hi) \div 2) + 1, hi),
                     CrcUpdate(c, data, lo, (lo + hi) \div 2))

\* binascii.crc32(data) & 0xFFFFFFFF (data is bound once, as a value)
crc32(data) == Strict(LAMBDA d : Xor32(CrcUpdate(Ones32, d, 1, Len(d)), Ones32), data)

\* struct '<B', '<H', '<I' fields
U8(v) == <<v % 256>>
U16(v) == <<v % 256, (v \div 256) % 256>>
U32(v) == <<v[2] % 256, v[2] \div 256, v[1] % 256, v[1] \div 256>>
GetU16(b, k) == b[k] + 256 * b[k + 1]
GetU32(b, k) == <<b[k + 2] + 256 * b[k + 3], b[k] + 256 * b[k + 1]>>

\* b[from:] with from counted from 0, as a Python slice
Tail0(b, from) == IF from >= Len(b) THEN <<>> ELSE SubSeq(b, from + 1, Len(b))
\* b[:n]
Head0(b, n) == IF n >= Len(b) THEN b ELSE SubSeq(b, 1, n)

(***************************************************************************)
(* Bitstream codec (bitgrid/bitstream.py)                                  *)
(***************************************************************************)
BS_MAGIC == <<66, 71, 66, 83>>   \* b'BGBS'
BS_VERSION == 1
HEADER_SIZE == 24
Orders == {"row-major", "col-major", "snake"}
ORDER_CODES == [o \in Orders |-> CASE o = "row-major" -> 0 [] o = "col-major" -> 1 [] o = "snake" -> 2]
ORDER_BY_CODE == [c \in 0 .. 2 |-> CHOOSE o \in Orders : ORDER_CODES[o] = c]

ZeroLuts == [i \in 0 .. 3 |-> 0]

\* Cell.params: 'luts' (four tables) and/or 'lut' (one table on output 0)
Params(has_luts, l, has_lut, v) ==
    [has_luts |-> has_luts, luts |-> l, has_lut |-> has_lut, lut |-> v]

\* _cell_luts
cell_luts(p) ==
    IF p.has_luts THEN p.luts
    ELSE IF p.has_lut THEN [i \in 0 .. 3 |-> IF i = 0 THEN p.lut ELSE 0]
    ELSE ZeroLuts

\* the cell _iter_cells_scan yields at (x,y): the Program's, or a zero LUT cell
scan_cell_luts(program, xy) ==
    IF xy \in DOMAIN program.cells THEN cell_luts(program.cells[xy]) ELSE ZeroLuts

\* _iter_cells_scan: the coordinates in scan order
iter_cells_scan(w, h, order) ==
    [k \in 1 .. w * h |->
        LET i == k - 1
        IN  CASE order = "row-major" -> <<i % w, i \div w>>
              [] order = "col-major" -> <<i \div h, i % h>>
              [] order = "snake" ->
                    LET y == i \div w
                    IN  <<IF y % 2 = 0 THEN i % w ELSE w - 1 - (i % w), y>>]

\* the (l0,l1,l2,l3) of the cells _iter_cells_scan yields, in scan order
scan_luts(program, order) ==
    Strict(LAMBDA coords : [k \in 1 .. program.width * program.height |->
                               scan_cell_luts(program, coords[k])],
           iter_cells_scan(program.width, program.height, order))

\* a plausible slip: each LUT emitted from its top bit
pack_bits_msb(program, order) ==
    Strict(LAMBDA cl :
               [k \in 1 .. 64 * Len(cl) |->
                   LET i == k - 1
                   IN  Bit(cl[(i \div 64) + 1][(i % 64) \div 16], 15 - (i % 16))],
           scan_luts(program, order))

\* the bit list of pack_program_bitstream: per cell 4 LUTs, 16 bits, LSB first
pack_bits(program, order) ==
    Strict(LAMBDA cl :
               [k \in 1 .. 64 * Len(cl) |->
                   LET i == k - 1
                   IN  Bit(cl[(i \div 64) + 1][(i % 64) \div 16], i % 16)],
           scan_luts(program, order))

\* bits packed LSB-first per byte, the last byte zero-padded
bits_to_bytes(bits) ==
    Strict(LAMBDA nbits :
               [j \in 1 .. (nbits + 7) \div 8 |->
                   LET b(n) == IF 8 * (j - 1) + n + 1 <= nbits
                               THEN bits[8 * (j - 1) + n + 1] * Pow2(n) ELSE 0
                   IN  b(0) + b(1) + b(2) + b(3) + b(4) + b(5) + b(6) + b(7)],
           Len(bits))

pack_program_bitstream(program, order) ==
    Strict(LAMBDA bits : bits_to_bytes(bits), pack_bits(program, order))

with_header(program, order, flags, payload) ==
    LET crc == crc32(payload)
        payload_bits == program.width * program.height * 4 * 16
    IN  BS_MAGIC \o U16(BS_VERSION) \o U16(HEADER_SIZE) \o U16(program.width)
        \o U16(program.height) \o U8(ORDER_CODES[order]) \o U8(flags % 256)
        \o U32(Word32(payload_bits)) \o U32(crc) \o U16(0) \o payload

pack_program_bitstream_with_header(program, order, flags) ==
    Strict(LAMBDA payload : with_header(program, order, flags, payload),
           pack_program_bitstream(program, order))

has_bitstream_header(data) ==
    Len(data) >= HEADER_SIZE /\ SubSeq(data, 1, 4) = BS_MAGIC

\* parse_bitstream_header: the header fields, or [error |-> reason]
parse_bitstream_header(data) ==
    IF ~has_bitstream_header(data)
    THEN [error |-> "missing or invalid bitstream magic header"]
    ELSE LET ver == GetU16(data, 5)
             hsz == GetU16(data, 7)
             order_code == data[13]
         IN  IF ver # BS_VERSION THEN [error |-> "unsupported version"]
             ELSE IF hsz # HEADER_SIZE THEN [error |-> "unexpected header size"]
             ELSE IF order_code \notin DOMAIN ORDER_BY_CODE THEN [error |-> "unknown order code"]
             ELSE [error |-> "", version |-> ver, header_size |-> hsz,
                   width |-> GetU16(data, 9), height |-> GetU16(data, 11),
                   order |-> order_code, flags |-> data[14],
                   payload_bits |-> GetU32(data, 15), payload_crc32 |-> GetU32(data, 19)]

\* a plausible slip: bit i of a byte read from the top
unpack_read_bits_msb(bitstream, total_bits) ==
    [k \in 1 .. (IF 8 * Len(bitstream) < total_bits THEN 8 * Len(bitstream) ELSE total_bits) |->
        Bit(bitstream[((k - 1) \div 8) + 1], 7 - ((k - 1) % 8))]

\* the bits unpack_bitstream_to_luts reads, LSB-first, at most total_bits
unpack_read_bits(bitstream, total_bits) ==
    [k \in 1 .. (IF 8 * Len(bitstream) < total_bits THEN 8 * Len(bitstream) ELSE total_bits) |->
        Bit(bitstream[((k - 1) \div 8) + 1], (k - 1) % 8)]

RECURSIVE lut_from_bits(_, _, _)
\* v |= 1 << i for i = k..15 where bit idx0 + i (0-based) is present and set
lut_from_bits(bits, idx0, k) ==
    IF k > 15 THEN 0
    ELSE (IF idx0 + k < Len(bits) /\ bits[idx0 + k + 1] = 1 THEN Pow2(k) ELSE 0)
         + lut_from_bits(bits, idx0, k + 1)

\* unpack_bitstream_to_luts: (x,y) -> [l0,l1,l2,l3]
luts_by_cell_of(bits, coords, width, height) ==
    [xy \in GridCells(width, height) |->
        LET n == (CHOOSE k \in 1 .. width * height : coords[k] = xy) - 1
        IN  [i \in 0 .. 3 |-> lut_from_bits(bits, 64 * n + 16 * i, 0)]]

unpack_bitstream_to_luts(bitstream, width, height, order) ==
    Strict(LAMBDA bits :
               Strict(LAMBDA coords : luts_by_cell_of(bits, coords, width, height),
                      iter_cells_scan(width, height, order)),
           unpack_read_bits(bitstream, width * height * 4 * 16))

\* unpack_bitstream_with_header: [error, luts, hdr]
unpack_payload(hdr, payload) ==
    LET expected_bytes == (hdr.width * hdr.height * 4 * 16 + 7) \div 8
    IN  IF Len(payload) >= expected_bytes
           /\ crc32(Head0(payload, expected_bytes)) # hdr.payload_crc32
        THEN [error |-> "payload CRC mismatch"]
        ELSE [error |-> "", hdr |-> hdr,
              luts |-> unpack_bitstream_to_luts(payload, hdr.width, hdr.height,
                                                ORDER_BY_CODE[hdr.order])]

unpack_bitstream_with_header(data) ==
    LET hdr == parse_bitstream_header(data)
    IN  IF hdr.error # "" THEN [error |-> hdr.error]
        ELSE Strict(LAMBDA h :
                        Strict(LAMBDA payload : unpack_payload(h, payload),
                               Tail0(data, h.header_size)),
                    hdr)

\* apply_luts_to_program: update params.luts, or append a LUT placeholder cell
apply_luts_to_program(program, luts_by_cell) ==
    [program EXCEPT !.cells =
        [xy \in DOMAIN program.cells \cup DOMAIN luts_by_cell |->
            IF xy \notin DOMAIN luts_by_cell THEN program.cells[xy]
            ELSE IF xy \in DOMAIN program.cells
                 THEN [program.cells[xy] EXCEPT !.has_luts = TRUE, !.luts = luts_by_cell[xy]]
                 ELSE Params(TRUE, luts_by_cell[xy], FALSE, 0)]]

\* the headered path of apply_bitstream_to_program, after the unpack
apply_unpacked(program, u) ==
    IF u.error # "" THEN [error |-> u.error, program |-> program, used_header |-> TRUE]
    ELSE IF <<program.width, program.height>> # <<u.hdr.width, u.hdr.height>>
         THEN [error |-> "bitstream dims do not match program dims",
               program |-> program, used_header |-> TRUE]
         ELSE [error |-> "", program |-> apply_luts_to_program(program, u.luts),
               used_header |-> TRUE]

\* apply_bitstream_to_program(program, data, order): [error, program, used_header]
apply_bitstream_to_program(program, data, order) ==
    IF has_bitstream_header(data)
    THEN Strict(LAMBDA u : apply_unpacked(program, u), unpack_bitstream_with_header(data))
    ELSE [error |-> "", used_header |-> FALSE,
          program |-> apply_luts_to_program(program,
                          unpack_bitstream_to_luts(data, program.width, program.height, order))]

\* the grid of cli/bitstream_selftest.py
BsW == 2
BsH == 2

\* the cells a Program may hold at xy: none (0), the selftest's one-variable
\* LUT on one output (1), and (2) four dense tables on the first row or a
\* single 'lut' table on the second
CellChoice(xy, n) ==
    LET k == xy[1] + 2 * xy[2]
    IN  CASE n = 1 -> Params(TRUE, [i \in 0 .. 3 |-> IF i = k THEN SumBits(k, 0) ELSE 0], FALSE, 0)
          [] n = 2 /\ xy[2] = 0 ->
                Params(TRUE, [i \in 0 .. 3 |-> CASE i = 0 -> 32769 + k [] i = 1 -> 4660
                                               [] i = 2 -> 65535 [] i = 3 -> 255 + 256 * k],
                       FALSE, 0)
          [] n = 2 /\ xy[2] # 0 -> Params(FALSE, ZeroLuts, TRUE, 27030 + k)

BsPrograms ==
    {[width |-> BsW, height |-> BsH,
      cells |-> [xy \in {c \in GridCells(BsW, BsH) : ch[c] # 0} |-> CellChoice(xy, ch[xy])]] :
        ch \in [GridCells(BsW, BsH) -> 0 .. 2]}

BsInit ==
    /\ bs_prog \in BsPrograms
    /\ bs_data = <<>>
    /\ bs_call = [op |-> "none"]
    /\ bs_src = bs_prog
    /\ bs_pre = bs_prog
    /\ EmuIdle
    /\ PrIdle
    /\ RtIdle
    /\ BarIdle
    /\ FrIdle
    /\ PhIdle
    /\ SrvIdle

\* bs = pack_program_bitstream(p, order); a round trip starts from the Program
\* as constructed or as the latest apply left it
BsPack(order) ==
    /\ bs_call.op \in {"none", "apply"}
    /\ bs_data' = pack_program_bitstream(bs_prog, order)
    /\ bs_call' = [op |-> "pack", order |-> order, header |-> FALSE]
    /\ bs_src' = bs_prog
    /\ UNCHANGED <<bs_prog, bs_pre>>
    /\ UNCHANGED notBsVars

\* bs = pack_program_bitstream_with_header(p, order, flags)
BsPackWithHeader(order, flags) ==
    /\ bs_call.op \in {"none", "apply"}
    /\ bs_data' = pack_program_bitstream_with_header(bs_prog, order, flags)
    /\ bs_call' = [op |-> "pack", order |-> order, header |-> TRUE]
    /\ bs_src' = bs_prog
    /\ UNCHANGED <<bs_prog, bs_pre>>
    /\ UNCHANGED notBsVars

\* luts = unpack_bitstream_to_luts(bs, p.width, p.height, order) on a raw payload
BsUnpack(order) ==
    /\ bs_call.op = "pack" /\ ~bs_call.header
    /\ bs_call' = [op |-> "unpack", order |-> order, packed |-> bs_call.order,
                    luts |-> unpack_bitstream_to_luts(bs_data, bs_prog.width, bs_prog.height, order)]
    /\ UNCHANGED <<bs_prog, bs_data, bs_src, bs_pre>>
    /\ UNCHANGED notBsVars

\* apply_bitstream_to_program(p, bs, order), order being the one bs was packed in
BsApply ==
    /\ bs_call.op = "pack"
    /\ LET r == apply_bitstream_to_program(bs_prog, bs_data, bs_call.order)
       IN  /\ bs_prog' = r.program
           /\ bs_call' = [op |-> "apply", order |-> bs_call.order, packed |-> bs_call.order,
                           error |-> r.error, used_header |-> r.used_header]
    /\ bs_pre' = bs_prog
    /\ UNCHANGED <<bs_data, bs_src>>
    /\ UNCHANGED notBsVars

BsNext ==
    \/ \E order \in Orders : BsPack(order)
    \/ \E order \in Orders, flags \in {0, 1} : BsPackWithHeader(order, flags)
    \/ \E order \in Orders : BsUnpack(order)
    \/ BsApply

SpecBitstream == BsInit /\ [][BsNext]_vars

(***************************************************************************)
(* BGCF wire frames (bitgrid/protocol.py)                                  *)
(***************************************************************************)
MAGIC == <<66, 71, 67, 70>>   \* b'BGCF'
VERSION == 1
HDR_SIZE == 16                \* struct.calcsize('<4sBBBBHHI')

\* struct.pack('<BBBBHH', ver, mtype, flags, 0, seq, length)
hdr_wo_crc(ver, mtype, flags, seq, length) ==
    U8(ver) \o U8(mtype) \o U8(flags) \o U8(0) \o U16(seq) \o U16(length)

\* pack_frame(msg_type, payload, seq, flags): the frame bytes, or the ValueError
pack_frame(msg_type, payload, seq, flags) ==
    IF ~(0 <= seq /\ seq <= 65535) THEN [error |-> "seq out of range", data |-> <<>>]
    ELSE IF ~(0 <= flags /\ flags <= 255) THEN [error |-> "flags out of range", data |-> <<>>]
    ELSE LET length == Len(payload)
             h == hdr_wo_crc(VERSION, msg_type, flags, seq, length)
         IN  [error |-> "",
              data |-> Strict(LAMBDA crc : MAGIC \o h \o U32(crc) \o payload,
                              crc32(h \o payload))]

NoFrame == [version |-> 0, type |-> 0, flags |-> 0, seq |-> 0, payload |-> <<>>, crc_ok |-> FALSE]

\* buf[k:k+4] == MAGIC
magic_at(buf, k) ==
    /\ buf[k + 1] = MAGIC[1]
    /\ buf[k + 2] = MAGIC[2]
    /\ buf[k + 3] = MAGIC[3]
    /\ buf[k + 4] = MAGIC[4]

\* a plausible slip: drop the width of the magic at a time
resync_by_four(buf, k) ==
    LET stops == {j \in k .. Len(buf) :
                    (j - k) % 4 = 0 /\ (Len(buf) - j < HDR_SIZE \/ magic_at(buf, j))}
    IN  CHOOSE j \in stops : \A i \in stops : j <= i

\* the offset at which the loop stops dropping single bytes: the first one
\* from k where fewer than HDR_SIZE bytes remain or the magic matches
resync(buf, k) ==
    LET stops == {j \in k .. Len(buf) : Len(buf) - j < HDR_SIZE \/ magic_at(buf, j)}
    IN  CHOOSE j \in stops : \A i \in stops : j <= i

RECURSIVE parse_from(_, _)
\* the while loop of try_parse_frame with buf = buffer[k0:]
parse_from(buffer, k0) ==
    LET k == resync(buffer, k0)
    IN  IF Len(buffer) - k < HDR_SIZE
        THEN [found |-> FALSE, frame |-> NoFrame, rest |-> Tail0(buffer, k)]
        ELSE LET ver == buffer[k + 5]
                 mtype == buffer[k + 6]
                 flags == buffer[k + 7]
                 seq == GetU16(buffer, k + 9)
                 length == GetU16(buffer, k + 11)
                 crc == GetU32(buffer, k + 13)
                 total == HDR_SIZE + length
             IN  IF ver # VERSION THEN parse_from(buffer, k + 4)
                 ELSE IF Len(buffer) - k < total
                 THEN [found |-> FALSE, frame |-> NoFrame, rest |-> Tail0(buffer, k)]
                 ELSE LET payload == IF length = 0 THEN <<>>
                                     ELSE SubSeq(buffer, k + HDR_SIZE + 1, k + total)
                          crc_calc == crc32(hdr_wo_crc(ver, mtype, flags, seq, length) \o payload)
                      IN  [found |-> TRUE,
                           frame |-> [version |-> ver, type |-> mtype, flags |-> flags,
                                      seq |-> seq, payload |-> payload,
                                      crc_ok |-> (crc_calc = crc)],
                           rest |-> Tail0(buffer, k + total)]

\* try_parse_frame(buffer) -> (frame or None, remaining bytes)
try_parse_frame(buffer) == Strict(LAMBDA b : parse_from(b, 0), buffer)

\* message types of MsgType: HELLO, LOAD_CHUNK, ERROR
MsgTypes == {1, 2, 127}
\* payloads: none, one byte, one that holds the magic itself
SmallPayloads == {<<>>, <<7>>, <<66, 71, 67, 70, 1>>}
\* a payload one byte longer than the u16 length field can count
LongPayload == [i \in 1 .. Pow2(16) |-> 0]
\* seq and flags over their ranges' ends and one past them
SeqValues == {0, 258, 65535, 65536}
FlagValues == {0, 1, 255, 256}

FrameArgs ==
    {[type |-> t, payload |-> p, seq |-> s, flags |-> f] :
        t \in MsgTypes, p \in SmallPayloads, s \in SeqValues, f \in FlagValues}
    \cup {[type |-> 2, payload |-> LongPayload, seq |-> 3, flags |-> 1]}

PrInit ==
    /\ pr_sent \in FrameArgs
    /\ pr_buf = <<>>
    /\ pr_call = [op |-> "none"]
    /\ EmuIdle
    /\ BsIdle
    /\ RtIdle
    /\ BarIdle
    /\ FrIdle
    /\ PhIdle
    /\ SrvIdle

\* the sender packs the frame; the receiver's buffer holds exactly its bytes
PrPack ==
    /\ pr_call.op = "none"
    /\ LET r == pack_frame(pr_sent.type, pr_sent.payload, pr_sent.seq, pr_sent.flags)
       IN  /\ pr_buf' = r.data
           /\ pr_call' = [op |-> "pack", error |-> r.error]
    /\ UNCHANGED pr_sent
    /\ UNCHANGED notPrVars

\* frame, buf = try_parse_frame(buf)
PrParse ==
    /\ pr_call.op \in {"pack", "parse"}
    /\ pr_call.op = "pack" => pr_call.error = ""
    /\ LET r == try_parse_frame(pr_buf)
       IN  /\ pr_buf' = r.rest
           /\ pr_call' = [op |-> "parse", first |-> (pr_call.op = "pack"),
                           found |-> r.found, frame |-> r.frame]
    /\ UNCHANGED pr_sent
    /\ UNCHANGED notPrVars

PrNext ==
    \/ PrPack
    \/ PrParse

SpecProto == PrInit /\ [][PrNext]_vars

(***************************************************************************)
(* ManhattanRouter (bitgrid/router.py)                                     *)
(***************************************************************************)
\* input sources, as the dicts of the source
Const0 == [type |-> "const", value |-> 0]
CellSrc(x, y, out) == [type |-> "cell", x |-> x, y |-> y, out |-> out]
EdgeSrc(side, index) == [type |-> "edge", side |-> side, index |-> index]

\* a | b on 16 bits
BitOr(a, b) == a + b - (a + b - Xor16(a, b)) \div 2

\* ManhattanRouter(width, height)
NewRouter(width, height) ==
    [W |-> width, H |-> height, occ |-> {}, route_cells |-> <<>>, edge_fanout_index |-> <<>>]

in_grid(R, x, y) == 0 <= x /\ x < R.W /\ 0 <= y /\ y < R.H

occupy(R, x, y) == IF in_grid(R, x, y) THEN [R EXCEPT !.occ = @ \cup {<<x, y>>}] ELSE R

is_free(R, x, y) == in_grid(R, x, y) /\ <<x, y>> \notin R.occ

Abs(n) == IF n < 0 THEN -n ELSE n
\* h(x, y) of route()
manhattan(a, b) == Abs(a[1] - b[1]) + Abs(a[2] - b[2])

\* the order of the heap entries (f, (x, y))
HeapLess(a, b) ==
    \/ a[1] < b[1]
    \/ a[1] = b[1] /\ a[2] < b[2]
    \/ a[1] = b[1] /\ a[2] = b[2] /\ a[3] <= b[3]

RECURSIVE reconstruct(_, _, _)
\* the path from src (excluded) to cur, following came backwards
reconstruct(came, cur, src) ==
    IF cur = src THEN <<>> ELSE Append(reconstruct(came, came[cur], src), cur)

\* the neighbours of xy the loop of route() relaxes
relaxed(R, st, xy, dst, avoid_moves) ==
    {d \in Dirs :
        LET n == <<xy[1] + delta[d][1], xy[2] + delta[d][2]>>
        IN  /\ <<xy[1], xy[2], d>> \notin avoid_moves
            /\ (is_free(R, n[1], n[2]) \/ n = dst \/ n \in DOMAIN R.route_cells)
            /\ (n \in DOMAIN st.gscore => st.gscore[xy] + 1 < st.gscore[n])}

\* one pass of the while loop of route(): st holds openh, gscore, came and
\* closed; done is set when the loop returns the path or runs out of entries
astar_step(R, dst, avoid_moves, st) ==
    IF st.done THEN st
    ELSE IF st.openh = {} THEN [st EXCEPT !.done = TRUE]
    ELSE LET top == CHOOSE t \in st.openh : \A u \in st.openh : HeapLess(t, u)
             xy == <<top[2], top[3]>>
             rest == st.openh \ {top}
         IN  IF xy \in st.closed THEN [st EXCEPT !.openh = rest]
             ELSE IF xy = dst THEN [st EXCEPT !.done = TRUE, !.found = TRUE]
             ELSE LET ds == relaxed(R, st, xy, dst, avoid_moves)
                      ns == {<<xy[1] + delta[d][1], xy[2] + delta[d][2]>> : d \in ds}
                      ng == st.gscore[xy] + 1
                  IN  [openh |-> rest \cup {<<ng + manhattan(n, dst), n[1], n[2]>> : n \in ns},
                       gscore |-> [n \in DOMAIN st.gscore \cup ns |->
                                      IF n \in ns THEN ng ELSE st.gscore[n]],
                       came |-> [n \in DOMAIN st.came \cup ns |->
                                      IF n \in ns THEN xy ELSE st.came[n]],
                       closed |-> st.closed \cup {xy},
                       done |-> FALSE,
                       found |-> FALSE]

RECURSIVE astar(_, _, _, _, _)
\* up to n passes of the loop (run in halves, to bound the depth)
astar(R, dst, avoid_moves, st, n) ==
    IF st.done \/ n <= 0 THEN st
    ELSE IF n = 1 THEN astar_step(R, dst, avoid_moves, st)
    ELSE astar(R, dst, avoid_moves,
               Strict(LAMBDA v : v, astar(R, dst, avoid_moves, st, n \div 2)),
               n - n \div 2)

\* route(src, dst, avoid_moves): the path, or found = FALSE for "No route found"
\* (turn_penalty is 0.0 at every call; avoid_moves = None is the empty set).
\* A cell is pushed at most once per neighbour, so 4*W*H + 1 passes empty the heap.
route(R, src, dst, avoid_moves) ==
    Strict(LAMBDA st : [found |-> st.found,
                        path |-> IF st.found THEN reconstruct(st.came, dst, src) ELSE <<>>],
           astar(R, dst, avoid_moves,
                 [openh |-> {<<manhattan(src, dst), src[1], src[2]>>},
                  gscore |-> [n \in {src} |-> 0],
                  came |-> <<>>,
                  closed |-> {},
                  done |-> FALSE,
                  found |-> FALSE],
                 4 * R.W * R.H + 1))

\* a fresh ROUTE4 cell: all inputs const 0, all LUTs 0
Route4Cell(x, y) ==
    [x |-> x, y |-> y, op |-> "ROUTE4",
     inputs |-> [i \in 0 .. 3 |-> Const0],
     luts |-> [i \in 0 .. 3 |-> 0]]

\* luts[i] |= rl[i] for i in range(4)
or_luts(cur, rl) == [i \in 0 .. 3 |-> BitOr(cur[i], rl[i])]

\* self._route_cells[(x, y)] = cell
put_cell(R, cell) ==
    [R EXCEPT !.route_cells =
        [k \in DOMAIN R.route_cells \cup {<<cell.x, cell.y>>} |->
            IF k = <<cell.x, cell.y>> THEN cell ELSE R.route_cells[k]]]

\* _add_or_merge_route4 without its checks of the output and of the input pin
add_or_merge_unchecked(R, x, y, out_dir, in_pin, upstream) ==
    LET cell == IF <<x, y>> \in DOMAIN R.route_cells THEN R.route_cells[<<x, y>>]
                ELSE Route4Cell(x, y)
    IN  [R |-> put_cell(occupy(R, x, y),
                        [cell EXCEPT !.inputs[pin_map[in_pin]] = upstream,
                                     !.luts = or_luts(cell.luts, route_luts(out_dir, in_pin))]),
         created |-> <<x, y>> \notin DOMAIN R.route_cells,
         error |-> ""]

\* a plausible slip: the input pin is overwritten without the test of its source
add_or_merge_no_pin_check(R, x, y, out_dir, in_pin, upstream) ==
    LET out_idx == pin_map[out_dir]
        rl == route_luts(out_dir, in_pin)
    IN  IF <<x, y>> \in DOMAIN R.route_cells /\ R.route_cells[<<x, y>>].luts[out_idx] # 0
        THEN LET cell == R.route_cells[<<x, y>>]
             IN  IF cell.luts[out_idx] = rl[out_idx] /\ cell.inputs[pin_map[in_pin]] = upstream
                 THEN [R |-> R, created |-> FALSE, error |-> ""]
                 ELSE [R |-> R, created |-> FALSE, error |-> "ROUTE4 out already assigned"]
        ELSE add_or_merge_unchecked(R, x, y, out_dir, in_pin, upstream)

\* _add_or_merge_route4(x, y, out_dir, in_pin, upstream): the router afterwards,
\* whether the cell was created, and the RuntimeError if it raised
add_or_merge_route4(R, x, y, out_dir, in_pin, upstream) ==
    LET out_idx == pin_map[out_dir]
        in_idx == pin_map[in_pin]
        rl == route_luts(out_dir, in_pin)
    IN  IF <<x, y>> \notin DOMAIN R.route_cells
        THEN LET fresh == Route4Cell(x, y)
                 cell == [fresh EXCEPT !.inputs[in_idx] = upstream,
                                       !.luts = or_luts(fresh.luts, rl)]
             IN  [R |-> put_cell(occupy(R, x, y), cell), created |-> TRUE, error |-> ""]
        ELSE LET cell == R.route_cells[<<x, y>>]
                 cur_in == cell.inputs[in_idx]
             IN  IF cell.luts[out_idx] # 0
                 THEN IF cell.luts[out_idx] = rl[out_idx] /\ cur_in = upstream
                      THEN [R |-> R, created |-> FALSE, error |-> ""]
                      ELSE [R |-> R, created |-> FALSE, error |-> "ROUTE4 out already assigned"]
                 ELSE IF cur_in # Const0 /\ cur_in # upstream
                      THEN [R |-> R, created |-> FALSE, error |-> "ROUTE4 input pin already used"]
                      ELSE [R |-> put_cell(R, [cell EXCEPT !.inputs[in_idx] = upstream,
                                                           !.luts = or_luts(cell.luts, rl)]),
                            created |-> FALSE, error |-> ""]

\* the direction of the hop (dx, dy), "" where the code raises 'Non-adjacent hop'
dir_from_delta(dx, dy) ==
    IF dx = 1 THEN "E" ELSE IF dx = -1 THEN "W"
    ELSE IF dy = 1 THEN "S" ELSE IF dy = -1 THEN "N" ELSE ""

\* one pass of the hop loop shared by wire_adjacent_to, wire_to_edge_from and
\* wire_edge_to_edge: the cell at nxt passes the pin opposite to the hop's
\* direction on in that direction; the last hop of an edge-bound path drives
\* side_last from the pin opposite to it instead (side_last = "" for none)
hop_step(ls, nxt, is_last, side_last) ==
    LET direction == dir_from_delta(nxt[1] - ls.cur[1], nxt[2] - ls.cur[2])
        out_dir == IF is_last /\ side_last # "" THEN side_last ELSE direction
    IN  IF direction = "" THEN [ls EXCEPT !.error = "Non-adjacent hop encountered"]
        ELSE Strict(LAMBDA m :
                      IF m.error # "" THEN [ls EXCEPT !.error = m.error]
                      ELSE [R |-> m.R,
                            cur |-> nxt,
                            prev_src |-> CellSrc(nxt[1], nxt[2], pin_map[out_dir]),
                            cells |-> IF m.created THEN Append(ls.cells, nxt) ELSE ls.cells,
                            last_dir |-> direction,
                            error |-> ""],
                    add_or_merge_route4(ls.R, nxt[1], nxt[2], out_dir, opposite[out_dir],
                                        ls.prev_src))

RECURSIVE hop_loop(_, _, _, _)
\* for nxt in path[i:]: ..., stopping at the first exception
hop_loop(ls, path, i, side_last) ==
    IF i > Len(path) \/ ls.error # "" THEN ls
    ELSE hop_loop(Strict(LAMBDA v : v, hop_step(ls, path[i], i = Len(path), side_last)),
                  path, i + 1, side_last)

\* the in-grid cell at position pos of an edge
edge_cell(R, side, pos) ==
    CASE side = "W" -> <<0, pos>>
      [] side = "E" -> <<R.W - 1, pos>>
      [] side = "N" -> <<pos, 0>>
      [] side = "S" -> <<pos, R.H - 1>>

NoCell == <<-1, -1>>

RECURSIVE detour_hops(_, _, _, _, _)
\* the extra_hops loop: up to `extra` steps perpendicular to the edge, each to
\* the first candidate that is free and is not `forbid`
detour_hops(R, cur_det, side, extra, forbid) ==
    LET candidates == IF side \in {"W", "E"} THEN <<<<0, -1>>, <<0, 1>>>>
                      ELSE <<<<1, 0>>, <<-1, 0>>>>
        at(k) == <<cur_det[1] + candidates[k][1], cur_det[2] + candidates[k][2]>>
        ok(k) == is_free(R, at(k)[1], at(k)[2]) /\ at(k) # forbid
    IN  IF extra <= 0 THEN <<>>
        ELSE IF ok(1) THEN <<at(1)>> \o detour_hops(R, at(1), side, extra - 1, forbid)
        ELSE IF ok(2) THEN <<at(2)>> \o detour_hops(R, at(2), side, extra - 1, forbid)
        ELSE <<>>

Last(seq) == seq[Len(seq)]
\* seq[:-1]
ButLast(seq) == IF Len(seq) = 0 THEN <<>> ELSE SubSeq(seq, 1, Len(seq) - 1)

\* the state the hop loop starts in
hop_start(R, cur, prev_src, cells) ==
    [R |-> R, cur |-> cur, prev_src |-> prev_src, cells |-> cells, last_dir |-> "E", error |-> ""]

\* wire_adjacent_to(src_cell, dst_cell, src_out) -> (cells, last_dir, last_xy)
wire_adjacent_to(R, src_cell, dst_cell, src_out) ==
    Strict(LAMBDA rt :
        IF ~rt.found
        THEN [R |-> R, error |-> "No route found", cells |-> <<>>, last_dir |-> "E", last_xy |-> src_cell]
        ELSE IF rt.path = <<>>
        THEN [R |-> R, error |-> "", cells |-> <<>>, last_dir |-> "E", last_xy |-> src_cell]
        ELSE Strict(LAMBDA ls : [R |-> ls.R, error |-> ls.error, cells |-> ls.cells,
                                 last_dir |-> ls.last_dir, last_xy |-> ls.cur],
                    hop_loop(hop_start(R, src_cell, CellSrc(src_cell[1], src_cell[2], src_out), <<>>),
                             ButLast(rt.path), 1, "")),
        route(R, src_cell, dst_cell, {}))

\* wire_to_edge_from(src_cell, side, pos, src_out, extra_hops) -> cells
wire_to_edge_from(R, src_cell, side, pos, src_out, extra_hops) ==
    Strict(LAMBDA pre_hops :
        Strict(LAMBDA rt :
            IF ~rt.found THEN [R |-> R, error |-> "No route found", cells |-> <<>>]
            ELSE Strict(LAMBDA ls : [R |-> ls.R, error |-> ls.error, cells |-> ls.cells],
                        hop_loop(hop_start(R, src_cell,
                                           CellSrc(src_cell[1], src_cell[2], src_out), <<>>),
                                 pre_hops \o rt.path, 1, side)),
            route(R, IF pre_hops # <<>> THEN Last(pre_hops) ELSE src_cell,
                  edge_cell(R, side, pos), {})),
        detour_hops(R, src_cell, side, extra_hops, NoCell))

\* the walk of wire_edge_to_edge from the start cell, once the path is known
edge_to_edge_walk(R, start, side_src, pos_src, side_dst, path) ==
    Strict(LAMBDA m :
        IF m.error # "" THEN [R |-> R, error |-> m.error, cells |-> <<>>, hops |-> 0]
        ELSE Strict(LAMBDA ls : [R |-> ls.R, error |-> ls.error, cells |-> ls.cells,
                                 hops |-> Len(path)],
                    hop_loop(hop_start(m.R, start,
                                       CellSrc(start[1], start[2], pin_map[opposite[side_src]]),
                                       IF m.created THEN <<start>> ELSE <<>>),
                             path, 1, side_dst)),
        add_or_merge_route4(R, start[1], start[2], opposite[side_src], side_src,
                            EdgeSrc(side_src, pos_src)))

\* wire_edge_to_edge(side_src, pos_src, side_dst, pos_dst, extra_hops) -> (cells, hops)
wire_edge_to_edge(R, side_src, pos_src, side_dst, pos_dst, extra_hops) ==
    Strict(LAMBDA pre_hops :
        Strict(LAMBDA rt :
            IF ~rt.found THEN [R |-> R, error |-> "No route found", cells |-> <<>>, hops |-> 0]
            ELSE edge_to_edge_walk(R, edge_cell(R, side_src, pos_src), side_src, pos_src,
                                   side_dst, pre_hops \o rt.path),
            route(R, IF pre_hops # <<>> THEN Last(pre_hops) ELSE edge_cell(R, side_src, pos_src),
                  edge_cell(R, side_dst, pos_dst), {})),
        detour_hops(R, edge_cell(R, side_src, pos_src), side_src, extra_hops,
                    edge_cell(R, side_dst, pos_dst)))

\* wire_from_edge_to: the start cell, one step inward where the edge cell is taken
edge_start(R, side, pos) ==
    LET e == edge_cell(R, side, pos)
        alt == <<e[1] + delta[opposite[side]][1], e[2] + delta[opposite[side]][2]>>
    IN  IF ~is_free(R, e[1], e[2]) /\ is_free(R, alt[1], alt[2]) THEN alt ELSE e

\* wire_from_edge_to: the moves back to the boundary, and the out directions
\* the ROUTE4 cells of the pass already drive
edge_avoid_moves(R, side) ==
    (CASE side = "W" -> {<<1, y, "W">> : y \in 0 .. R.H - 1}
       [] side = "E" -> {<<R.W - 2, y, "E">> : y \in 0 .. R.H - 1}
       [] side = "N" -> {<<x, 1, "N">> : x \in 0 .. R.W - 1}
       [] side = "S" -> {<<x, R.H - 2, "S">> : x \in 0 .. R.W - 1})
    \cup {<<m[1][1], m[1][2], m[2]>> :
             m \in {n \in (DOMAIN R.route_cells) \X Dirs :
                       R.route_cells[n[1]].luts[pin_map[n[2]]] # 0}}

RECURSIVE start_alternates(_, _, _, _, _, _)
\* the alternates for the start mapping, tried in the order ds from the i-th on
start_alternates(R, cur, side, pos, ds, i) ==
    IF i > Len(ds) THEN [R |-> R, created |-> FALSE, error |-> "already", chosen |-> ""]
    ELSE Strict(LAMBDA m :
                  IF m.error = ""
                  THEN [R |-> m.R, created |-> m.created, error |-> "", chosen |-> ds[i]]
                  ELSE start_alternates(R, cur, side, pos, ds, i + 1),
                add_or_merge_route4(R, cur[1], cur[2], ds[i], side, EdgeSrc(side, pos)))

\* the mapping at the start cell: reused where the cell already passes this
\* edge on inward, else created or merged with out = primary, else with the
\* first alternate out direction that merges; chosen is chosen_dir
start_mapping(R, cur, side, pos) ==
    LET primary == opposite[side]
        reused == /\ cur \in DOMAIN R.route_cells
                  /\ R.route_cells[cur].inputs[pin_map[side]] = EdgeSrc(side, pos)
                  /\ R.route_cells[cur].luts[pin_map[primary]] # 0
        order == IF side \in {"W", "E"} THEN <<"E", "W", "N", "S">> ELSE <<"N", "S", "E", "W">>
    IN  IF reused THEN [R |-> R, created |-> FALSE, error |-> "", chosen |-> primary]
        ELSE Strict(LAMBDA m :
                      IF m.error = ""
                      THEN [R |-> m.R, created |-> m.created, error |-> "", chosen |-> primary]
                      ELSE Strict(LAMBDA a : IF a.error = "" THEN a ELSE [a EXCEPT !.error = m.error],
                                  start_alternates(R, cur, side, pos,
                                                   SelectSeq(order, LAMBDA d : d # primary), 1)),
                    add_or_merge_route4(R, cur[1], cur[2], primary, side, EdgeSrc(side, pos)))

\* self._edge_fanout_index.get((side, pos), 0)
fanout_index(R, side, pos) ==
    IF <<side, pos>> \in DOMAIN R.edge_fanout_index THEN R.edge_fanout_index[<<side, pos>>] ELSE 0

RECURSIVE fanout_stride(_, _, _, _, _)
\* the per-edge fanout stride: up to k cells from c in direction d
fanout_stride(R, c, d, k, dst_cell) ==
    LET n == <<c[1] + delta[d][1], c[2] + delta[d][2]>>
    IN  IF k <= 0 \/ ~in_grid(R, n[1], n[2]) \/ n = dst_cell THEN <<>>
        ELSE <<n>> \o fanout_stride(R, n, d, k - 1, dst_cell)

\* first_step (as a sequence of at most one cell) and the hops before the
\* core route: first_step, the detours and the fanout stride
edge_pre_hops(R, start, side, pos, dst_cell, extra_hops, chosen_dir) ==
    LET n0 == <<start[1] + delta[chosen_dir][1], start[2] + delta[chosen_dir][2]>>
        first == IF in_grid(R, n0[1], n0[2]) /\ n0 # dst_cell THEN <<n0>> ELSE <<>>
        base == IF first # <<>> THEN n0 ELSE start
        det == detour_hops(R, base, side, extra_hops, dst_cell)
        cur_det == IF det # <<>> THEN Last(det) ELSE base
    IN  [first |-> first,
         hops |-> first \o det \o
                  fanout_stride(R, cur_det, chosen_dir, fanout_index(R, side, pos), dst_cell)]

\* core = self.route(...) with its three fallbacks without avoid rules
core_route(R, start, alt_start, start_for_core, dst_cell, avoid_moves) ==
    Strict(LAMBDA r1 :
        IF r1.found THEN r1
        ELSE Strict(LAMBDA r2 :
                 IF r2.found THEN r2
                 ELSE Strict(LAMBDA r3 : IF r3.found THEN r3 ELSE route(R, start, dst_cell, {}),
                             route(R, alt_start, dst_cell, {})),
                 route(R, start_for_core, dst_cell, {})),
        route(R, start_for_core, dst_cell, avoid_moves))

\* the except branch of the hop loop of wire_from_edge_to: avoid the move and
\* route again from cur; a failure met before in the same state repeats forever
edge_reroute(ws, dst_cell, move) ==
    LET avoid == ws.avoid_moves \cup {move}
        key == <<ws.R, ws.cur, avoid, ws.prev_src, ws.last_dir>>
    IN  IF key \in ws.seen THEN [ws EXCEPT !.error = "does not return"]
        ELSE Strict(LAMBDA r1 :
                 IF r1.found
                 THEN [ws EXCEPT !.hops = ButLast(r1.path), !.idx = 1,
                                 !.avoid_moves = avoid, !.seen = @ \cup {key}]
                 ELSE Strict(LAMBDA r2 :
                          IF r2.found
                          THEN [ws EXCEPT !.hops = ButLast(r2.path), !.idx = 1,
                                          !.avoid_moves = avoid, !.seen = @ \cup {key}]
                          ELSE [ws EXCEPT !.error = "No route found"],
                          route(ws.R, ws.cur, dst_cell, {})),
                 route(ws.R, ws.cur, dst_cell, avoid))

\* one pass of the hop loop of wire_from_edge_to: the cell at hops[idx] drives
\* the direction of the next hop (or of dst_cell) from the pin it was entered by
edge_hop_step(ws, dst_cell, has_core) ==
    LET hop == ws.hops[ws.idx]
        in_dir == dir_from_delta(hop[1] - ws.cur[1], hop[2] - ws.cur[2])
        out_dir == IF ws.idx < Len(ws.hops)
                   THEN dir_from_delta(ws.hops[ws.idx + 1][1] - hop[1],
                                       ws.hops[ws.idx + 1][2] - hop[2])
                   ELSE IF has_core /\ dst_cell # hop
                   THEN dir_from_delta(dst_cell[1] - hop[1], dst_cell[2] - hop[2])
                   ELSE ws.last_dir
    IN  IF in_dir = "" \/ out_dir = "" THEN [ws EXCEPT !.error = "Non-adjacent hop encountered"]
        ELSE Strict(LAMBDA m :
                 IF m.error # "" THEN edge_reroute(ws, dst_cell, <<hop[1], hop[2], out_dir>>)
                 ELSE [ws EXCEPT !.R = m.R,
                                 !.cells = IF m.created THEN Append(@, hop) ELSE @,
                                 !.prev_src = CellSrc(hop[1], hop[2], pin_map[out_dir]),
                                 !.last_dir = out_dir,
                                 !.cur = hop,
                                 !.hop_count = @ + 1,
                                 !.idx = @ + 1],
                 add_or_merge_route4(ws.R, hop[1], hop[2], out_dir, opposite[in_dir], ws.prev_src))

RECURSIVE edge_hop_loop(_, _, _)
\* while idx < len(hops): ..., stopping at the first exception that propagates
edge_hop_loop(ws, dst_cell, has_core) ==
    IF ws.error # "" \/ ws.idx > Len(ws.hops) THEN ws
    ELSE edge_hop_loop(Strict(LAMBDA v : v, edge_hop_step(ws, dst_cell, has_core)),
                       dst_cell, has_core)

\* wire_from_edge_to once the start mapping sm, the hops before the core and
\* the core route are known
edge_walk(R, start, side, pos, dst_cell, sm, pre, core, avoid_moves) ==
    LET hops == pre \o ButLast(core)
        last_cell_for_core == IF hops # <<>> THEN Last(hops) ELSE start
    IN  IF /\ core # <<>>
           /\ dst_cell # last_cell_for_core
           /\ dir_from_delta(dst_cell[1] - last_cell_for_core[1],
                             dst_cell[2] - last_cell_for_core[2]) = ""
        THEN [R |-> R, error |-> "Non-adjacent hop encountered", cells |-> <<>>,
              last_dir |-> sm.chosen, last_xy |-> start, hop_count |-> 0]
        ELSE Strict(LAMBDA ws :
                 [R |-> IF ws.error # "" THEN ws.R
                        ELSE [ws.R EXCEPT !.edge_fanout_index =
                                 [k \in DOMAIN @ \cup {<<side, pos>>} |->
                                     IF k = <<side, pos>> THEN fanout_index(R, side, pos) + 1
                                     ELSE @[k]]],
                  error |-> ws.error, cells |-> ws.cells, last_dir |-> ws.last_dir,
                  last_xy |-> ws.cur, hop_count |-> ws.hop_count],
                 edge_hop_loop([R |-> R, cur |-> start,
                                prev_src |-> CellSrc(start[1], start[2], pin_map[sm.chosen]),
                                cells |-> IF sm.created THEN <<start>> ELSE <<>>,
                                last_dir |-> sm.chosen, hop_count |-> 0,
                                hops |-> hops, idx |-> 1,
                                avoid_moves |-> avoid_moves,
                                seen |-> {}, error |-> ""],
                               dst_cell, core # <<>>))

\* wire_from_edge_to(side, pos, dst_cell, extra_hops) -> (cells, last_dir, last_xy, hop_count)
wire_from_edge_to(R, side, pos, dst_cell, extra_hops) ==
    LET start == edge_start(R, side, pos)
        avoid_moves == edge_avoid_moves(R, side)
    IN  Strict(LAMBDA sm :
            IF sm.error # ""
            THEN [R |-> R, error |-> sm.error, cells |-> <<>>, last_dir |-> opposite[side],
                  last_xy |-> start, hop_count |-> 0]
            ELSE Strict(LAMBDA pre :
                     Strict(LAMBDA rt :
                         IF ~rt.found
                         THEN [R |-> sm.R, error |-> "No route found",
                               cells |-> IF sm.created THEN <<start>> ELSE <<>>,
                               last_dir |-> sm.chosen, last_xy |-> start, hop_count |-> 0]
                         ELSE edge_walk(sm.R, start, side, pos, dst_cell, sm, pre.hops, rt.path,
                                        avoid_moves),
                         core_route(sm.R, start,
                                    IF pre.first # <<>> THEN pre.first[1]
                                    ELSE IF pre.hops # <<>> THEN Last(pre.hops) ELSE start,
                                    IF pre.hops # <<>> THEN Last(pre.hops) ELSE start,
                                    dst_cell, avoid_moves)),
                     edge_pre_hops(sm.R, start, side, pos, dst_cell, extra_hops, sm.chosen)),
            start_mapping(R, start, side, pos))

(***************************************************************************)
(* grid_from_program (bitgrid/lut_only.py) and the LUT-grid connectivity   *)
(* check (bitgrid/validator.py)                                            *)
(***************************************************************************)
\* grid_from_program(prog, strict=True) for a Program whose cells are the
\* router's cells at `coords`: the LUTs per coordinate, or the ValueError
grid_from_program(R, coords) ==
    LET held == {coords[k] : k \in 1 .. Len(coords)}
        far(xy) == \E i \in 0 .. 3 :
                      LET src == R.route_cells[xy].inputs[i]
                      IN  src.type = "cell" /\ manhattan(<<src.x, src.y>>, xy) > 1
    IN  IF \E xy \in held : far(xy)
        THEN [error |-> "Non-neighbor input found", cells |-> <<>>]
        ELSE [error |-> "",
              cells |-> [xy \in GridCells(R.W, R.H) |->
                            IF xy \in held
                            THEN [i \in 0 .. 3 |-> R.route_cells[xy].luts[i] % 65536]
                            ELSE [i \in 0 .. 3 |-> 0]]]

\* _VAR_MASKS
VAR_MASKS == [d \in Dirs |-> SumBits(pin_map[d], 0)]
IDX_TO_DIR == [i \in 0 .. 3 |-> CHOOSE d \in Dirs : pin_map[d] = i]

\* _edge_of(x, y, W, H), "" for None
edge_of(x, y, W, H) ==
    IF x = 0 THEN "W" ELSE IF x = W - 1 THEN "E"
    ELSE IF y = 0 THEN "N" ELSE IF y = H - 1 THEN "S" ELSE ""

\* the outputs of a cell whose LUT is the mask of in_pin, by output index
outs_from(l4, in_pin) == {oi \in 0 .. 3 : l4[oi] = VAR_MASKS[in_pin]}

\* one pass of the tracing loop of validate_lutgrid_connectivity
trace_step(g, W, H, st) ==
    IF st.result # "" THEN st
    ELSE IF <<st.x, st.y, st.current_in>> \in st.visited THEN [st EXCEPT !.result = "cycle"]
    ELSE LET cands == outs_from(g[<<st.x, st.y>>], st.current_in)
         IN  IF cands = {} THEN [st EXCEPT !.result = "broken"]
             ELSE LET next_out == IDX_TO_DIR[CHOOSE oi \in cands : \A oj \in cands : oi <= oj]
                      nx == st.x + delta[next_out][1]
                      ny == st.y + delta[next_out][2]
                  IN  IF edge_of(st.x, st.y, W, H) = next_out THEN [st EXCEPT !.result = "ok"]
                      ELSE IF ~(0 <= nx /\ nx < W /\ 0 <= ny /\ ny < H)
                      THEN [st EXCEPT !.result = "out of bounds"]
                      ELSE [x |-> nx, y |-> ny, current_in |-> opposite[next_out],
                            visited |-> st.visited \cup {<<st.x, st.y, st.current_in>>},
                            step_count |-> st.step_count + 1,
                            result |-> IF st.step_count + 1 > W * H * 2
                                       THEN "step budget" ELSE ""]

RECURSIVE trace(_, _, _, _, _)
\* up to n passes of the tracing loop (run in halves, to bound the depth)
trace(g, W, H, st, n) ==
    IF st.result # "" \/ n <= 0 THEN st
    ELSE IF n = 1 THEN trace_step(g, W, H, st)
    ELSE trace(g, W, H, Strict(LAMBDA v : v, trace(g, W, H, st, n \div 2)), n - n \div 2)

\* validate_lutgrid_connectivity(grid): the issues, one per ingress that does
\* not reach an egress, as [kind, start]
validate_lutgrid_connectivity(g, W, H) ==
    LET starts == {xy \in GridCells(W, H) :
                      /\ edge_of(xy[1], xy[2], W, H) # ""
                      /\ \E oi \in 0 .. 3 : g[xy][oi] = VAR_MASKS[edge_of(xy[1], xy[2], W, H)]}
        end(xy) == trace(g, W, H,
                         [x |-> xy[1], y |-> xy[2], current_in |-> edge_of(xy[1], xy[2], W, H),
                          visited |-> {}, step_count |-> 0, result |-> ""],
                         2 * W * H + 2)
    IN  {[kind |-> end(xy).result, start |-> xy] : xy \in {s0 \in starts : end(s0).result # "ok"}}

(***************************************************************************)
(* Parallel lanes around a blocked cell (tests/test_routing_block55.py)    *)
(***************************************************************************)
LaneW == 10
LaneH == 10
NumLanes == 8
\* the cell the test occupies
Block55 == <<5, 5>>
\* the cells occupied before routing: one of the grid, or none
BlockedCells == GridCells(LaneW, LaneH) \cup {NoCell}

LnInit ==
    /\ \E b \in BlockedCells : router = occupy(NewRouter(LaneW, LaneH), b[1], b[2])
    /\ rt_prog = <<>>
    /\ rt_call = [op |-> "none", lanes |-> 0, error |-> ""]
    /\ rp_prog = <<>>
    /\ rp_call = <<>>
    /\ EmuIdle
    /\ BsIdle
    /\ PrIdle
    /\ BarIdle
    /\ FrIdle
    /\ PhIdle
    /\ SrvIdle

\* cells, hops = r.wire_edge_to_edge('W', row, 'E', row); prog.cells.extend(cells)
\* for the next row; an exception ends the build
RouteLane ==
    /\ rt_call.op \in {"none", "wire_edge_to_edge"}
    /\ rt_call.error = ""
    /\ rt_call.lanes < NumLanes
    /\ \E r \in {wire_edge_to_edge(router, "W", rt_call.lanes, "E", rt_call.lanes, 0)} :
           /\ router' = r.R
           /\ rt_prog' = IF r.error = "" THEN rt_prog \o r.cells ELSE rt_prog
           /\ rt_call' = [op |-> "wire_edge_to_edge", lanes |-> rt_call.lanes + 1,
                           error |-> r.error, hops |-> r.hops]
    /\ UNCHANGED notRtVars

\* g = grid_from_program(prog, strict=True); issues = validate_lutgrid_connectivity(g)
BuildAndValidate ==
    /\ rt_call.op = "wire_edge_to_edge"
    /\ rt_call.error = ""
    /\ \E g \in {grid_from_program(router, rt_prog)} :
           rt_call' = [op |-> "validate", lanes |-> rt_call.lanes, error |-> g.error,
                       grid |-> g.cells,
                       issues |-> IF g.error = ""
                                  THEN validate_lutgrid_connectivity(g.cells, router.W, router.H)
                                  ELSE {}]
    /\ UNCHANGED <<router, rt_prog>>
    /\ UNCHANGED notRtVars

LnNext ==
    \/ RouteLane
    \/ BuildAndValidate

SpecLanes == LnInit /\ [][LnNext]_vars

(***************************************************************************)
(* route_program (bitgrid/router.py)                                       *)
(***************************************************************************)
\* Cell(x, y, inputs, op)
ProgCell(x, y, inputs) == [x |-> x, y |-> y, op |-> "LUT", inputs |-> inputs]

RECURSIVE occupy_all(_, _, _)
\* for c in prog.cells: router.occupy(c.x, c.y)
occupy_all(R, cells, k) ==
    IF k > Len(cells) THEN R
    ELSE occupy_all(occupy(R, cells[k].x, cells[k].y), cells, k + 1)

\* the body of the loop over sink.inputs for input i of cell k; rs holds the
\* router, prog.cells, new_cells (as coordinates) and the exception raised
rewire_input(rs, k, i) ==
    LET sink == rs.cells[k]
        src == sink.inputs[i]
    IN  IF rs.error # "" \/ src.type # "cell" THEN rs
        ELSE IF manhattan(<<src.x, src.y>>, <<sink.x, sink.y>>) <= 1 THEN rs
        ELSE Strict(LAMBDA w :
                      IF w.error # "" THEN [rs EXCEPT !.R = w.R, !.error = w.error]
                      ELSE [R |-> w.R,
                            cells |-> [rs.cells EXCEPT ![k].inputs[i] =
                                          CellSrc(w.last_xy[1], w.last_xy[2], pin_map[w.last_dir])],
                            new_cells |-> rs.new_cells \o w.cells,
                            error |-> ""],
                    wire_adjacent_to(rs.R, <<src.x, src.y>>, <<sink.x, sink.y>>, src.out))

RECURSIVE rewire(_, _)
\* for sink in prog.cells: for i, src in enumerate(sink.inputs): ...
\* (n counts the pairs done: cell n \div 4 + 1, input n % 4)
rewire(rs, n) ==
    IF n >= 4 * Len(rs.cells) THEN rs
    ELSE rewire(Strict(LAMBDA v : v, rewire_input(rs, (n \div 4) + 1, n % 4)), n + 1)

\* route_program(prog): the Program returned (prog.cells + new_cells), or the
\* exception; the new cells are the router's ROUTE4 cells as they are at return
route_program(prog) ==
    Strict(LAMBDA rs :
        [error |-> rs.error,
         program |-> [width |-> prog.width, height |-> prog.height,
                      cells |-> rs.cells \o
                                [j \in 1 .. Len(rs.new_cells) |-> rs.R.route_cells[rs.new_cells[j]]]]],
        rewire([R |-> occupy_all(NewRouter(prog.width, prog.height), prog.cells, 1),
                cells |-> prog.cells, new_cells |-> <<>>, error |-> ""], 0))

RpW == 2 * GridHalf
RpH == 2 * GridHalf

\* Programs of two cells: a source cell, and a sink whose input 0 (and, for a
\* fanout of two, input 1) reads output `out` of the source
RpPrograms ==
    {[width |-> RpW, height |-> RpH,
      cells |-> <<ProgCell(a[1], a[2], [i \in 0 .. 3 |-> Const0]),
                  ProgCell(b[1], b[2], [i \in 0 .. 3 |->
                      IF i = 0 \/ (i = 1 /\ two) THEN CellSrc(a[1], a[2], out) ELSE Const0])>>] :
        a \in GridCells(RpW, RpH), b \in GridCells(RpW, RpH), out \in 0 .. 3, two \in BOOLEAN}

RpInit ==
    /\ rp_prog \in {P \in RpPrograms : <<P.cells[1].x, P.cells[1].y>> # <<P.cells[2].x, P.cells[2].y>>}
    /\ rp_call = [op |-> "none"]
    /\ router = <<>>
    /\ rt_prog = <<>>
    /\ rt_call = <<>>
    /\ EmuIdle
    /\ BsIdle
    /\ PrIdle
    /\ BarIdle
    /\ FrIdle
    /\ PhIdle
    /\ SrvIdle

\* routed = route_program(prog)
RouteProgram ==
    /\ rp_call.op = "none"
    /\ \E r \in {route_program(rp_prog)} :
           rp_call' = [op |-> "route_program", error |-> r.error, program |-> r.program]
    /\ UNCHANGED rp_prog
    /\ UNCHANGED notRpVars

RpNext == RouteProgram

SpecRouteProgram == RpInit /\ [][RpNext]_vars

(***************************************************************************)
(* A routing pass: wiring calls in any order on one ManhattanRouter, as    *)
(* physicalize and the cli tools make them.  A call that raises leaves the *)
(* router as it was at the raise; a call that does not return ends the     *)
(* pass.                                                                   *)
(***************************************************************************)
RtW == 2 * GridHalf
RtH == 2 * GridHalf

\* the compute cells wired from and to, and the edge positions used
RtSrcCells == {<<0, 1>>, <<1, 3>>}
RtDstCells == {<<3, 1>>, <<2, 2>>}
RtInEdges == {<<"W", 1>>, <<"N", 2>>}
RtOutEdges == {<<"E", 1>>, <<"S", 2>>}
RtExtraHops == {0, 1}

\* router = ManhattanRouter(W, H), with the compute cells occupied or not
RtInit ==
    /\ \E placed \in BOOLEAN :
           router = [NewRouter(RtW, RtH) EXCEPT
                        !.occ = IF placed THEN RtSrcCells \cup RtDstCells ELSE {}]
    /\ rt_prog = <<>>
    /\ rt_call = [op |-> "none", n |-> 0, error |-> ""]
    /\ rp_prog = <<>>
    /\ rp_call = <<>>
    /\ EmuIdle
    /\ BsIdle
    /\ PrIdle
    /\ BarIdle
    /\ FrIdle
    /\ PhIdle
    /\ SrvIdle

\* the pass goes on: no call is stuck, and fewer than MaxWires were made
RtReady ==
    /\ rt_call.error # "does not return"
    /\ rt_call.n < MaxWires

\* what a wiring call leaves behind
RtReturn(op, r) ==
    /\ router' = r.R
    /\ rt_call' = [op |-> op, n |-> rt_call.n + 1, error |-> r.error]
    /\ UNCHANGED rt_prog
    /\ UNCHANGED notRtVars

WireAdjacentTo ==
    /\ RtReady
    /\ \E src \in RtSrcCells, dst \in RtDstCells, src_out \in {1, 2} :
           \E r \in {wire_adjacent_to(router, src, dst, src_out)} :
               RtReturn("wire_adjacent_to", r)

WireFromEdgeTo ==
    /\ RtReady
    /\ \E e \in RtInEdges, dst \in RtDstCells, extra_hops \in RtExtraHops :
           \E r \in {wire_from_edge_to(router, e[1], e[2], dst, extra_hops)} :
               RtReturn("wire_from_edge_to", r)

WireToEdgeFrom ==
    /\ RtReady
    /\ \E src \in RtSrcCells, e \in RtOutEdges, extra_hops \in RtExtraHops :
           \E r \in {wire_to_edge_from(router, src, e[1], e[2], 1, extra_hops)} :
               RtReturn("wire_to_edge_from", r)

WireEdgeToEdge ==
    /\ RtReady
    /\ \E a \in RtInEdges, b \in RtOutEdges, extra_hops \in RtExtraHops :
           \E r \in {wire_edge_to_edge(router, a[1], a[2], b[1], b[2], extra_hops)} :
               RtReturn("wire_edge_to_edge", r)

RtNext ==
    \/ WireAdjacentTo
    \/ WireFromEdgeTo
    \/ WireToEdgeFrom
    \/ WireEdgeToEdge

SpecRouter == RtInit /\ [][RtNext]_vars

(***************************************************************************)
(* NeighborBarrier (bitgrid/barrier.py)                                    *)
(*                                                                         *)
(* The dictionaries neighbor_flags and _local_done only ever map a key to  *)
(* True, so each is the set of its keys.                                   *)
(***************************************************************************)
\* NeighborBarrier.__init__
NeighborBarrier(expect_north, expect_east, expect_south, expect_west) ==
    [ state |-> [epoch |-> 0, phase |-> "A"],
      expect |-> [d \in Dirs |-> CASE d = "N" -> expect_north
                                   [] d = "E" -> expect_east
                                   [] d = "S" -> expect_south
                                   [] d = "W" -> expect_west],
      neighbor_flags |-> {},
      local_done |-> {} ]

\* NeighborBarrier.local_done
local_done(B) ==
    [B EXCEPT !.local_done = @ \cup {<<B.state.epoch, B.state.phase>>}]

\* NeighborBarrier.mark_neighbor_done
mark_neighbor_done(B, direction, epoch, phase) ==
    IF direction \notin DOMAIN B.expect THEN B
    ELSE [B EXCEPT !.neighbor_flags = @ \cup {<<epoch, phase, direction>>}]

\* NeighborBarrier.mark_neighbor_header: the barrier afterwards and the status
mark_neighbor_header(B, direction, epoch, phase) ==
    IF direction \notin DOMAIN B.expect
    THEN [B |-> B, status |-> "unexpected_side"]
    ELSE LET status0 == IF epoch # B.state.epoch THEN "epoch_mismatch"
                        ELSE IF phase # B.state.phase THEN "phase_mismatch"
                        ELSE "ok"
             key == <<epoch, phase, direction>>
         IN  [ B |-> [B EXCEPT !.neighbor_flags = @ \cup {key}],
               status |-> IF key \in B.neighbor_flags THEN "duplicate"
                          ELSE status0 ]

\* can_advance without its _local_done test
can_advance_neighbors_only(B) ==
    \A d \in DOMAIN B.expect :
       B.expect[d] => <<B.state.epoch, B.state.phase, d>> \in B.neighbor_flags

\* a plausible slip: can_advance without its test of the neighbour flags
can_advance_local_only(B) ==
    <<B.state.epoch, B.state.phase>> \in B.local_done

\* NeighborBarrier.can_advance
can_advance(B) ==
    /\ <<B.state.epoch, B.state.phase>> \in B.local_done
    /\ \A d \in DOMAIN B.expect :
          B.expect[d] => <<B.state.epoch, B.state.phase, d>> \in B.neighbor_flags

\* NeighborBarrier.advance
advance(B) ==
    IF ~can_advance(B) THEN B
    ELSE IF B.state.phase = "A" THEN [B EXCEPT !.state.phase = "B"]
    ELSE [B EXCEPT !.state = [epoch |-> @.epoch + 1, phase |-> "A"]]

\* NeighborBarrier.current
current(B) == <<B.state.epoch, B.state.phase>>

\* the directions, epochs and phases the callers pass; "U" is no grid side
BarDirs == {"E", "W", "U"}
BarEpochs == 0..MaxEpoch
BarPhases == {"A", "B"}
\* the barriers constructed: E only and W only (b_left and b_right of
\* cli/demo_two_tile_loop.py), E and W, and no neighbour at all
BarExpects == {<<FALSE, TRUE, FALSE, FALSE>>, <<FALSE, FALSE, FALSE, TRUE>>,
               <<FALSE, TRUE, FALSE, TRUE>>, <<FALSE, FALSE, FALSE, FALSE>>}

BarInit ==
    /\ \E x \in BarExpects : barrier = NeighborBarrier(x[1], x[2], x[3], x[4])
    /\ bar_call = [op |-> "none", n |-> 0]
    /\ EmuIdle
    /\ BsIdle
    /\ PrIdle
    /\ RtIdle
    /\ SrvIdle
    /\ FrIdle
    /\ PhIdle

BarReady == bar_call.n < MaxBarCalls

LocalDone ==
    /\ BarReady
    /\ barrier' = local_done(barrier)
    /\ bar_call' = [op |-> "local_done", n |-> bar_call.n + 1]
    /\ UNCHANGED notBarVars

MarkNeighborDone ==
    /\ BarReady
    /\ \E d \in BarDirs, e \in BarEpochs, p \in BarPhases :
          /\ barrier' = mark_neighbor_done(barrier, d, e, p)
          /\ bar_call' = [op |-> "mark_neighbor_done", n |-> bar_call.n + 1,
                          direction |-> d, epoch |-> e, phase |-> p]
    /\ UNCHANGED notBarVars

MarkNeighborHeader ==
    /\ BarReady
    /\ \E d \in BarDirs, e \in BarEpochs, p \in BarPhases :
          \E r \in {mark_neighbor_header(barrier, d, e, p)} :
             /\ barrier' = r.B
             /\ bar_call' = [op |-> "mark_neighbor_header", n |-> bar_call.n + 1,
                             direction |-> d, epoch |-> e, phase |-> p,
                             marked |-> <<e, p, d>> \in barrier.neighbor_flags,
                             status |-> r.status]
    /\ UNCHANGED notBarVars

Advance ==
    /\ BarReady
    /\ barrier' = advance(barrier)
    /\ bar_call' = [op |-> "advance", n |-> bar_call.n + 1]
    /\ UNCHANGED notBarVars

BarNext == LocalDone \/ MarkNeighborDone \/ MarkNeighborHeader \/ Advance

SpecBarrier == BarInit /\ [][BarNext]_vars

(***************************************************************************)
(* TCP server (bitgrid/cli/serve_tcp.py)                                   *)
(*                                                                         *)
(* main() builds one Emulator, one current_inputs dict, one links table    *)
(* and one Lock, and starts a handle_client thread per accepted            *)
(* connection. A connection is a pair of byte streams, kept here as the    *)
(* frames written and not yet read. Connections are numbered from 1 in     *)
(* the order they are opened; the lock holds the number of the connection  *)
(* whose handler has it, or None.                                          *)
(***************************************************************************)
\* cli/make_identity_program.py: no cells; bit i of east is bit i of west
build_identity_program(width, height, lanes, row0) ==
    [ width |-> width, height |-> height, cells |-> {},
      input_bits |-> [nm \in {"west"} |->
                        [i \in 0 .. lanes - 1 |->
                            [type |-> "input", name |-> "west", bit |-> i,
                             x |-> 0, y |-> row0 + i]]],
      output_bits |-> [nm \in {"east"} |->
                         [i \in 0 .. lanes - 1 |->
                             [type |-> "input", name |-> "west", bit |-> i,
                              x |-> width - 1, y |-> row0 + i]]],
      latency |-> 0 ]

\* the methods class Emulator defines (bitgrid/emulator.py)
EmulatorMethods == {"__init__", "run_vector", "run", "run_stream"}

\* a call emu.<method>(...): Python raises AttributeError for a name the
\* object does not have
emu_call(method) ==
    IF method \in EmulatorMethods THEN "ok" ELSE "AttributeError"

\* run_stream's sample of output bus `name` under step_inputs (the identity
\* Program has input sources only): bit i is bit src.bit of the named input
out_sample(prog, step_inputs, name) ==
    LET bits == prog.output_bits[name]
        RECURSIVE Val(_)
        Val(i) == IF i \notin DOMAIN bits THEN 0
                  ELSE ((((IF bits[i].name \in DOMAIN step_inputs
                           THEN step_inputs[bits[i].name] ELSE 0)
                          \div Pow2(bits[i].bit)) % 2) * Pow2(i)) + Val(i + 1)
    IN  Val(0)

\* a frame: every field not used by its type is blank; seq and flags are
\* the defaults of pack_frame, and crc_ok is what try_parse_frame will find
Frame(type) ==
    [ type |-> type, name |-> "", val |-> 0, flags |-> 0, width |-> 0,
      height |-> 0, dir_code |-> 0, local_out |-> "", remote_in |-> "",
      host |-> "", lanes |-> 0, seq |-> 0, crc_ok |-> TRUE,
      sid |-> 0, total |-> 0, off |-> 0, clen |-> 0, chunk |-> <<>> ]
\* payload_hello(width, height)
HelloFrame(width, height) ==
    [Frame("HELLO") EXCEPT !.width = width, !.height = height]
\* encode_name_u64_map({name: v})
SetInputsFrame(name, v) == [Frame("SET_INPUTS") EXCEPT !.name = name, !.val = v]
\* payload_step(cycles), with the frame's flags byte
StepFrame(cycles, flags) == [Frame("STEP") EXCEPT !.val = cycles, !.flags = flags]
GetOutputsFrame == Frame("GET_OUTPUTS")

\* main(): the state shared by the handlers of one server process
server_main(prog) ==
    [ prog |-> prog,
      cycle |-> 0,
      current_inputs |-> [nm \in DOMAIN prog.input_bits |-> 0],
      links |-> <<>>,
      lock |-> None,
      phases |-> <<>>,
      sessions |-> <<>>,
      apply |-> [sid |-> None, data |-> <<>>, result |-> ""],
      shutdown_event |-> FALSE,
      listening |-> TRUE ]

\* s.accept() and the start of handle_client: opener is "client" or the
\* server whose LINK handler connected
accept(sid, opener) ==
    [ server |-> sid, opener |-> opener,
      inbox |-> <<>>, outbox |-> <<>>, sent |-> <<>>,
      open |-> TRUE, remote_open |-> TRUE,
      pc |-> "recv", branch |-> "", cycles |-> 0, left |-> 0,
      link_items |-> {}, job |-> Frame(""), psock |-> 0, seq |-> 0 ]

Srv(c) == servers[conns[c].server]

\* try_parse_frame returned a frame of this type to the dispatch loop
Parsed(c, type) ==
    /\ conns[c].open
    /\ conns[c].pc = "recv"
    /\ conns[c].inbox # <<>>
    /\ Head(conns[c].inbox).crc_ok
    /\ Head(conns[c].inbox).type = type

\* a lock that never makes a thread wait
lock_ignored(srv) == TRUE

\* `with lock:` can be entered
lock_free(srv) == srv.lock = None

\* the finally block of handle_client: close the socket of every link of
\* this server's table, then the connection
handler_exit(cs, c, links) ==
    [k \in DOMAIN cs |->
        IF k = c THEN [cs[k] EXCEPT !.open = FALSE, !.pc = "exited"]
        ELSE IF \E lk \in DOMAIN links : links[lk].sock = k
        THEN [cs[k] EXCEPT !.remote_open = FALSE]
        ELSE cs[k]]

\* frames the clients may write
SrvValues == {328, 840}
StepCycles == {1, 2}

FramesSent == LET RECURSIVE Sum(_)
                  Sum(k) == IF k = 0 THEN 0
                            ELSE Sum(k - 1) + (IF conns[k].opener = "client"
                                               THEN Len(conns[k].sent) ELSE 0)
              IN  Sum(Len(conns))

\* a client writes frame f on its connection
ClientSend(c, f) ==
    /\ conns[c].opener = "client"
    /\ conns[c].open
    /\ FramesSent < MaxFrames
    /\ conns' = [conns EXCEPT ![c].inbox = Append(@, f), ![c].sent = Append(@, f)]
    /\ UNCHANGED servers
    /\ UNCHANGED notSrvVars

\* HELLO: answer with the grid dimensions, pack_frame(..., seq=seq), and
\* seq = (seq + 1) & 0xFFFF
HandleHello(c) ==
    /\ Parsed(c, "HELLO")
    /\ conns' = [conns EXCEPT
                   ![c].inbox = Tail(@),
                   ![c].outbox = Append(@, [HelloFrame(Srv(c).prog.width,
                                                       Srv(c).prog.height)
                                               EXCEPT !.seq = conns[c].seq]),
                   ![c].seq = (@ + 1) % 65536]
    /\ UNCHANGED servers
    /\ UNCHANGED notSrvVars

\* SET_INPUTS: current_inputs[k] = v for a declared input bus; no lock taken
HandleSetInputs(c) ==
    /\ Parsed(c, "SET_INPUTS")
    /\ \E f \in {Head(conns[c].inbox)} :
          servers' = [servers EXCEPT
                        ![conns[c].server].current_inputs =
                           IF f.name \in DOMAIN @
                           THEN [@ EXCEPT ![f.name] = f.val] ELSE @]
    /\ conns' = [conns EXCEPT ![c].inbox = Tail(@)]
    /\ UNCHANGED notSrvVars

\* a server that takes no STEP frame as forwarded
forwarded_never(f) == FALSE

\* the forwarded flag of a STEP frame
forwarded(f) == f.flags # 0

\* STEP: choose the branch; link_items is the snapshot of the links table
HandleStep(c) ==
    /\ Parsed(c, "STEP")
    /\ \E f \in {Head(conns[c].inbox)} :
          conns' = [conns EXCEPT
                      ![c].inbox = Tail(@),
                      ![c].job = f,
                      ![c].cycles = f.val,
                      ![c].branch = IF DOMAIN Srv(c).links # {} /\ ~forwarded(f)
                                    THEN "linked" ELSE "local",
                      ![c].link_items = IF DOMAIN Srv(c).links # {} /\ ~forwarded(f)
                                        THEN DOMAIN Srv(c).links ELSE {},
                      ![c].pc = "lock"]
    /\ UNCHANGED servers
    /\ UNCHANGED notSrvVars

\* `with lock:` before emu.run_stream: all the cycles of the STEP in the
\* local branch, one cycle per pass of the loop in the linked branch
AcquireLock(c) ==
    /\ conns[c].open
    /\ conns[c].pc = "lock"
    /\ lock_free(Srv(c))
    /\ servers' = [servers EXCEPT ![conns[c].server].lock = c]
    /\ conns' = [conns EXCEPT
                   ![c].left = IF conns[c].branch = "local" THEN conns[c].cycles ELSE 1,
                   ![c].pc = "run_phase"]
    /\ UNCHANGED notSrvVars

\* run_stream: phase = 'A' if self._cycle % 2 == 0 else 'B'
RunPhase(c) ==
    /\ conns[c].pc = "run_phase"
    /\ servers' = [servers EXCEPT
                     ![conns[c].server].phases =
                        Append(@, <<Srv(c).cycle,
                                    IF Srv(c).cycle % 2 = 0 THEN "A" ELSE "B">>)]
    /\ conns' = [conns EXCEPT ![c].pc = "run_incr"]
    /\ UNCHANGED notSrvVars

\* run_stream: the cells of the phase are evaluated (the identity Program
\* has none) and self._cycle += 1; after the last cycle the lock is released
RunIncr(c) ==
    /\ conns[c].pc = "run_incr"
    /\ servers' = [servers EXCEPT
                     ![conns[c].server].cycle = @ + 1,
                     ![conns[c].server].lock =
                        IF conns[c].left = 1 THEN None ELSE @]
    /\ conns' = [conns EXCEPT
                   ![c].left = @ - 1,
                   ![c].pc = IF conns[c].left > 1 THEN "run_phase"
                             ELSE IF conns[c].branch = "local" THEN "recv"
                             ELSE "sample"]
    /\ UNCHANGED notSrvVars

\* GET_OUTPUTS: `with lock: outputs = emu.sample_outputs(current_inputs)`;
\* the exception leaves handle_client through its finally block, and no
\* OUTPUTS frame is written
HandleGetOutputs(c) ==
    /\ Parsed(c, "GET_OUTPUTS")
    /\ lock_free(Srv(c))
    /\ emu_call("sample_outputs") = "AttributeError"
    /\ conns' = handler_exit([conns EXCEPT ![c].inbox = Tail(@)], c, Srv(c).links)
    /\ UNCHANGED servers
    /\ UNCHANGED notSrvVars

(***************************************************************************)
(* One server, two clients, no links                                       *)
(***************************************************************************)
\* tests/test_identity_grid_stream.py: build_identity_program(16, 10, lanes=9)
IdW == 16
IdH == 10
IdLanes == 9

ServeFrames ==
    {SetInputsFrame("west", v) : v \in SrvValues}
    \cup {StepFrame(n, 0) : n \in StepCycles}
    \cup {GetOutputsFrame, Frame("HELLO")}

ServeInit ==
    /\ servers = [sid \in {"L"} |-> server_main(build_identity_program(IdW, IdH, IdLanes, 0))]
    /\ conns = <<accept("L", "client"), accept("L", "client")>>
    /\ EmuIdle
    /\ BsIdle
    /\ PrIdle
    /\ RtIdle
    /\ BarIdle
    /\ FrIdle
    /\ PhIdle

ServeNext ==
    \/ \E c \in DOMAIN conns, f \in ServeFrames : ClientSend(c, f)
    \/ \E c \in DOMAIN conns : HandleHello(c)
    \/ \E c \in DOMAIN conns : HandleSetInputs(c)
    \/ \E c \in DOMAIN conns : HandleStep(c)
    \/ \E c \in DOMAIN conns : AcquireLock(c)
    \/ \E c \in DOMAIN conns : RunPhase(c)
    \/ \E c \in DOMAIN conns : RunIncr(c)
    \/ \E c \in DOMAIN conns : HandleGetOutputs(c)

SpecServe == ServeInit /\ [][ServeNext]_vars

(***************************************************************************)
(* LINK, UNLINK and the linked branch of STEP                              *)
(***************************************************************************)
\* payload_link(dir_code, local_out, remote_in, host, port, lanes); host
\* and port together are the name of the peer server
LinkFrame(dir_code, local_out, remote_in, host, lanes) ==
    [Frame("LINK") EXCEPT !.dir_code = dir_code, !.local_out = local_out,
                          !.remote_in = remote_in, !.host = host, !.lanes = lanes]
\* payload_link_ack(lanes)
LinkAckFrame(lanes) == [Frame("LINK_ACK") EXCEPT !.lanes = lanes % 65536]
\* payload_error(1, 'LINK failed: ' + msg)
ErrorFrame(msg) == [Frame("ERROR") EXCEPT !.val = 1, !.name = msg]

Min(a, b) == IF a < b THEN a ELSE b

\* the body of the LINK handler after the peer's HELLO gave (pw, ph): the
\* link to store, or the exception that was raised
link_setup(prog, cfg, pw, ph, psock) ==
    LET dir_char == CASE cfg.dir_code = 0 -> "N" [] cfg.dir_code = 1 -> "E"
                      [] cfg.dir_code = 2 -> "S" [] cfg.dir_code = 3 -> "W"
                      [] OTHER -> "E"
        obits == IF cfg.local_out \in DOMAIN prog.output_bits
                 THEN prog.output_bits[cfg.local_out] ELSE <<>>
        coords == [i \in DOMAIN obits |-> <<obits[i].x, obits[i].y>>]
        lanes_map == Cardinality(DOMAIN coords)
        max_peer == IF dir_char \in {"E", "W"} THEN ph ELSE pw
        lanes == IF cfg.lanes > 0 THEN cfg.lanes ELSE Min(lanes_map, max_peer)
    IN  IF pw = 0 \/ ph = 0 THEN [error |-> "peer HELLO failed"]
        ELSE IF DOMAIN obits = {} THEN [error |-> "unknown local_out"]
        ELSE IF lanes > lanes_map THEN [error |-> "list index out of range"]
        ELSE [ error |-> "",
               key |-> <<dir_char, cfg.local_out, cfg.host, cfg.remote_in>>,
               link |-> [ sock |-> psock, dir |-> dir_char,
                          local_out |-> cfg.local_out,
                          remote_in |-> cfg.remote_in,
                          lanes |-> lanes,
                          idxA |-> {i \in 0 .. lanes - 1 :
                                      (coords[i][1] + coords[i][2]) % 2 = 0},
                          idxB |-> {i \in 0 .. lanes - 1 :
                                      (coords[i][1] + coords[i][2]) % 2 # 0},
                          cycle |-> 0, last_sent |-> 0 ] ]

\* LINK, first half: _peer_connect makes the peer accept a connection, and
\* _peer_hello writes HELLO on it and waits for the answer
HandleLink(c) ==
    /\ Parsed(c, "LINK")
    /\ \E f \in {Head(conns[c].inbox)} :
          /\ f.host \in DOMAIN servers
          /\ conns' = Append([conns EXCEPT ![c].inbox = Tail(@),
                                           ![c].job = f,
                                           ![c].psock = Len(conns) + 1,
                                           ![c].pc = "link_hello"],
                             [accept(f.host, conns[c].server) EXCEPT
                                !.inbox = <<HelloFrame(0, 0)>>,
                                !.sent = <<HelloFrame(0, 0)>>])
    /\ UNCHANGED servers
    /\ UNCHANGED notSrvVars

\* LINK, second half: the peer's HELLO has arrived; the link is put in the
\* table (no lock taken) and LINK_ACK written, or ERROR after an exception;
\* both are packed without a seq argument and the handler's seq is not touched
LinkFinish(c) ==
    /\ conns[c].pc = "link_hello"
    /\ conns[conns[c].psock].outbox # <<>>
    /\ \E resp \in {Head(conns[conns[c].psock].outbox)} :
       \E r \in {link_setup(Srv(c).prog, conns[c].job,
                            IF resp.type = "HELLO" THEN resp.width ELSE 0,
                            IF resp.type = "HELLO" THEN resp.height ELSE 0,
                            conns[c].psock)} :
          IF r.error = ""
          THEN /\ servers' = [servers EXCEPT
                                ![conns[c].server].links =
                                   [k \in DOMAIN @ \cup {r.key} |->
                                       IF k = r.key THEN r.link ELSE @[k]]]
               /\ conns' = [conns EXCEPT
                              ![conns[c].psock].outbox = Tail(@),
                              ![c].outbox = Append(@, LinkAckFrame(r.link.lanes)),
                              ![c].pc = "recv"]
          ELSE /\ conns' = [conns EXCEPT
                              ![conns[c].psock].outbox = Tail(@),
                              ![c].outbox = Append(@, ErrorFrame(r.error)),
                              ![c].pc = "recv"]
               /\ UNCHANGED servers
    /\ UNCHANGED notSrvVars

\* UNLINK: close the socket of every link and empty the table (no lock taken)
HandleUnlink(c) ==
    /\ Parsed(c, "UNLINK")
    /\ conns' = [k \in DOMAIN conns |->
                   IF k = c THEN [conns[k] EXCEPT !.inbox = Tail(@)]
                   ELSE IF \E lk \in DOMAIN Srv(c).links : Srv(c).links[lk].sock = k
                   THEN [conns[k] EXCEPT !.remote_open = FALSE]
                   ELSE conns[k]]
    /\ servers' = [servers EXCEPT ![conns[c].server].links = <<>>]
    /\ UNCHANGED notSrvVars

\* conn.recv returns b'' once the other end is closed: the loop breaks and
\* the handler leaves through its finally block
PeerClosed(c) ==
    /\ conns[c].open
    /\ conns[c].pc = "recv"
    /\ conns[c].inbox = <<>>
    /\ ~conns[c].remote_open
    /\ conns' = handler_exit(conns, c, Srv(c).links)
    /\ UNCHANGED servers
    /\ UNCHANGED notSrvVars

\* the linked branch of STEP after the subcycle's run_stream:
\* `with lock: outs = emu.sample_outputs(current_inputs)`; the exception
\* leaves handle_client before any frame is written to a peer, so the
\* statements that build and send the peer groups are never reached
SampleOutputs(c) ==
    /\ conns[c].pc = "sample"
    /\ lock_free(Srv(c))
    /\ emu_call("sample_outputs") = "AttributeError"
    /\ conns' = handler_exit(conns, c, Srv(c).links)
    /\ UNCHANGED servers
    /\ UNCHANGED notSrvVars

(***************************************************************************)
(* One LINK request to a server whose peer is as large or smaller          *)
(***************************************************************************)
LinkLanes == {0, RpH, IdLanes, IdLanes + 1}
LinkRequests ==
    {LinkFrame(d, out, "west", "R", n) :
        d \in 0 .. 4, out \in {"east", "north"}, n \in LinkLanes}

LinkInit ==
    /\ \E rprog \in {build_identity_program(IdW, IdH, IdLanes, 0),
                     build_identity_program(RpW, RpH, RpH, 0)} :
          servers = [sid \in {"L", "R"} |->
                       IF sid = "L"
                       THEN server_main(build_identity_program(IdW, IdH, IdLanes, 0))
                       ELSE server_main(rprog)]
    /\ conns = <<accept("L", "client")>>
    /\ EmuIdle
    /\ BsIdle
    /\ PrIdle
    /\ RtIdle
    /\ BarIdle
    /\ FrIdle
    /\ PhIdle

LinkNext ==
    \/ \E c \in DOMAIN conns, f \in LinkRequests :
          conns[c].sent = <<>> /\ ClientSend(c, f)
    \/ \E c \in DOMAIN conns : HandleLink(c)
    \/ \E c \in DOMAIN conns : HandleHello(c)
    \/ \E c \in DOMAIN conns : LinkFinish(c)

SpecLink == LinkInit /\ [][LinkNext]_vars

(***************************************************************************)
(* Two servers on the identity Program, a client on each                   *)
(***************************************************************************)
LinkedFrames(sid) ==
    {SetInputsFrame("west", 328), GetOutputsFrame, Frame("UNLINK")}
    \cup {StepFrame(n, fl) : n \in StepCycles, fl \in {0, 1}}
    \cup {IF sid = "L" THEN LinkFrame(1, "east", "west", "R", 0)
          ELSE LinkFrame(3, "east", "west", "L", 0)}

LinkedInit ==
    /\ servers = [sid \in {"L", "R"} |->
                    server_main(build_identity_program(IdW, IdH, IdLanes, 0))]
    /\ conns = <<accept("L", "client"), accept("R", "client")>>
    /\ EmuIdle
    /\ BsIdle
    /\ PrIdle
    /\ RtIdle
    /\ BarIdle
    /\ FrIdle
    /\ PhIdle

LinkedNext ==
    \/ \E c \in DOMAIN conns : \E f \in LinkedFrames(conns[c].server) : ClientSend(c, f)
    \/ \E c \in DOMAIN conns : HandleHello(c)
    \/ \E c \in DOMAIN conns : HandleSetInputs(c)
    \/ \E c \in DOMAIN conns : HandleStep(c)
    \/ \E c \in DOMAIN conns : AcquireLock(c)
    \/ \E c \in DOMAIN conns : RunPhase(c)
    \/ \E c \in DOMAIN conns : RunIncr(c)
    \/ \E c \in DOMAIN conns : SampleOutputs(c)
    \/ \E c \in DOMAIN conns : HandleGetOutputs(c)
    \/ \E c \in DOMAIN conns : HandleLink(c)
    \/ \E c \in DOMAIN conns : LinkFinish(c)
    \/ \E c \in DOMAIN conns : HandleUnlink(c)
    \/ \E c \in DOMAIN conns : PeerClosed(c)

SpecLinked == LinkedInit /\ [][LinkedNext]_vars

(***************************************************************************)
(* LOAD_CHUNK sessions and APPLY                                           *)
(*                                                                         *)
(* main() builds one sessions dict for all handlers. A session holds      *)
(* total, buf and written; `covered` is kept beside them as a record of    *)
(* the byte offsets the accepted chunks have written (the code has no     *)
(* such field).                                                            *)
(***************************************************************************)
\* struct.pack('<HIIH', session_id, total_bytes, offset, clen) + chunk
LoadChunkFrame(sid, total, off, clen, chunk) ==
    [Frame("LOAD_CHUNK") EXCEPT !.sid = sid, !.total = total, !.off = off,
                                !.clen = clen, !.chunk = chunk]

\* _parse_load_chunk(payload): payload[12:12+clen], or the ValueError
parse_load_chunk(f) ==
    IF Len(f.chunk) < f.clen
    THEN [error |-> "LOAD_CHUNK chunk length mismatch"]
    ELSE [error |-> "", sid |-> f.sid, total |-> f.total, off |-> f.off,
          chunk |-> Head0(f.chunk, f.clen)]

\* the session a first chunk creates: bytearray(total), written 0
new_session(total) ==
    [total |-> total, buf |-> [i \in 1 .. total |-> 0], written |-> 0, covered |-> {}]

\* a server that writes a chunk wherever it is told to
overflows_never(sess, off, chunk) == FALSE

\* off + len(chunk) > sess['total']
overflows(sess, off, chunk) == off + Len(chunk) > sess.total

\* sess['buf'][off:off+len(chunk)] = chunk; sess['written'] += len(chunk)
write_chunk(sess, off, chunk) ==
    [sess EXCEPT
        !.buf = Head0(sess.buf, off) \o chunk \o Tail0(sess.buf, off + Len(chunk)),
        !.written = @ + Len(chunk),
        !.covered = @ \cup (off .. off + Len(chunk) - 1)]

\* the LOAD_CHUNK branch after the parse: sessions afterwards
load_chunk(sessions, r) ==
    LET ss == IF r.sid \in DOMAIN sessions THEN sessions
              ELSE [k \in DOMAIN sessions \cup {r.sid} |->
                       IF k = r.sid THEN new_session(r.total) ELSE sessions[k]]
    IN  IF overflows(ss[r.sid], r.off, r.chunk) THEN ss
        ELSE [ss EXCEPT ![r.sid] = write_chunk(@, r.off, r.chunk)]

\* LOAD_CHUNK: a frame that does not parse is dropped
HandleLoadChunk(c) ==
    /\ Parsed(c, "LOAD_CHUNK")
    /\ \E r \in {parse_load_chunk(Head(conns[c].inbox))} :
          servers' = [servers EXCEPT
                        ![conns[c].server].sessions =
                           IF r.error # "" THEN @ ELSE load_chunk(@, r)]
    /\ conns' = [conns EXCEPT ![c].inbox = Tail(@)]
    /\ UNCHANGED notSrvVars

\* the session APPLY picks: the largest id with written >= total, or None
complete_sid(sessions) ==
    LET done == {sid \in DOMAIN sessions : sessions[sid].written >= sessions[sid].total}
    IN  IF done = {} THEN None
        ELSE CHOOSE sid \in done : \A o \in done : o <= sid

\* APPLY: `with lock: meta = emu.load_bitstream(data)` inside try/except
\* Exception; the AttributeError is caught and logged, the handler goes on.
\* The server's apply field keeps the latest call made and how it ended.
HandleApply(c) ==
    /\ Parsed(c, "APPLY")
    /\ \E sid \in {complete_sid(Srv(c).sessions)} :
          IF sid = None
          THEN UNCHANGED servers
          ELSE /\ lock_free(Srv(c))
               /\ servers' = [servers EXCEPT
                                ![conns[c].server].apply =
                                   [sid |-> sid, data |-> Srv(c).sessions[sid].buf,
                                    result |-> emu_call("load_bitstream")]]
    /\ conns' = [conns EXCEPT ![c].inbox = Tail(@)]
    /\ UNCHANGED notSrvVars

(***************************************************************************)
(* One server, one client that loads and applies                           *)
(***************************************************************************)
\* session ids, declared totals, offsets and chunks the client uses
LoadSids == {1, 2}
LoadTotals == {0, 2}
LoadOffsets == {0, 1}
LoadChunks == {<<7>>, <<7, 9>>}

LoadFrames ==
    {LoadChunkFrame(sid, total, off, Len(ch), ch) :
        sid \in LoadSids, total \in LoadTotals, off \in LoadOffsets, ch \in LoadChunks}
    \cup {LoadChunkFrame(1, 2, 0, 2, <<7>>), Frame("APPLY")}

LoadInit ==
    /\ servers = [sid \in {"L"} |-> server_main(build_identity_program(IdW, IdH, IdLanes, 0))]
    /\ conns = <<accept("L", "client")>>
    /\ EmuIdle
    /\ BsIdle
    /\ PrIdle
    /\ RtIdle
    /\ BarIdle
    /\ FrIdle
    /\ PhIdle

LoadNext ==
    \/ \E c \in DOMAIN conns, f \in LoadFrames : ClientSend(c, f)
    \/ \E c \in DOMAIN conns : HandleLoadChunk(c)
    \/ \E c \in DOMAIN conns : HandleApply(c)

SpecLoad == LoadInit /\ [][LoadNext]_vars

(***************************************************************************)
(* QUIT, SHUTDOWN and the accept loop of main()                            *)
(***************************************************************************)
\* a frame whose CRC does not match is dropped by the dispatch loop
DropBadCrc(c) ==
    /\ conns[c].open
    /\ conns[c].pc = "recv"
    /\ conns[c].inbox # <<>>
    /\ ~Head(conns[c].inbox).crc_ok
    /\ conns' = [conns EXCEPT ![c].inbox = Tail(@)]
    /\ UNCHANGED servers
    /\ UNCHANGED notSrvVars

\* QUIT: return, through the finally block
HandleQuit(c) ==
    /\ Parsed(c, "QUIT")
    /\ conns' = handler_exit([conns EXCEPT ![c].inbox = Tail(@)], c, Srv(c).links)
    /\ UNCHANGED servers
    /\ UNCHANGED notSrvVars

\* SHUTDOWN: shutdown_event.set() and return, through the finally block
HandleShutdown(c) ==
    /\ Parsed(c, "SHUTDOWN")
    /\ servers' = [servers EXCEPT ![conns[c].server].shutdown_event = TRUE]
    /\ conns' = handler_exit([conns EXCEPT ![c].inbox = Tail(@)], c, Srv(c).links)
    /\ UNCHANGED notSrvVars

\* an accept loop that never looks at the event
is_set_never(srv) == FALSE

\* shutdown_event.is_set()
is_set(srv) == srv.shutdown_event

\* one pass of the while loop of main(): s.accept() returns a connection,
\* for which a handler thread is started, or times out after 0.5 s; either
\* way the event is tested next and the loop left when it is set
AcceptLoop(sid, connected) ==
    /\ servers[sid].listening
    /\ connected => Len(conns) < MaxConns
    /\ conns' = IF connected THEN Append(conns, accept(sid, "client")) ELSE conns
    /\ servers' = [servers EXCEPT ![sid].listening = ~is_set(servers[sid])]
    /\ UNCHANGED notSrvVars

(***************************************************************************)
(* Two servers, clients of the first one                                   *)
(***************************************************************************)
ServerIds == {"L", "R"}

ControlFrames ==
    { Frame("HELLO"), GetOutputsFrame, Frame("QUIT"), Frame("SHUTDOWN"),
      [Frame("SHUTDOWN") EXCEPT !.crc_ok = FALSE],
      LinkFrame(1, "east", "west", "R", 0),
      LinkFrame(1, "north", "west", "R", 0) }

ControlInit ==
    /\ servers = [sid \in ServerIds |->
                    server_main(build_identity_program(IdW, IdH, IdLanes, 0))]
    /\ conns = <<accept("L", "client"), accept("L", "client")>>
    /\ EmuIdle
    /\ BsIdle
    /\ PrIdle
    /\ RtIdle
    /\ BarIdle
    /\ FrIdle
    /\ PhIdle

ControlNext ==
    \/ \E c \in DOMAIN conns, f \in ControlFrames : ClientSend(c, f)
    \/ \E c \in DOMAIN conns : DropBadCrc(c)
    \/ \E c \in DOMAIN conns : HandleHello(c)
    \/ \E c \in DOMAIN conns : HandleGetOutputs(c)
    \/ \E c \in DOMAIN conns : HandleLink(c)
    \/ \E c \in DOMAIN conns : LinkFinish(c)
    \/ \E c \in DOMAIN conns : HandleQuit(c)
    \/ \E c \in DOMAIN conns : HandleShutdown(c)
    \/ \E sid \in ServerIds, connected \in BOOLEAN : AcceptLoop(sid, connected)

SpecControl == ControlInit /\ [][ControlNext]_vars

\* the main thread is never blocked for good: accept() has a timeout, so
\* a pass of the loop that can be made is made
SpecShutdown ==
    /\ ControlInit
    /\ [][ControlNext]_vars
    /\ \A sid \in ServerIds : WF_vars(\E connected \in BOOLEAN : AcceptLoop(sid, connected))

(***************************************************************************)
(* The receive loop of handle_client on a byte stream                      *)
(*                                                                         *)
(*   while True:                                                           *)
(*       while True:                                                       *)
(*           frame, buf = try_parse_frame(buf)                             *)
(*           if frame is None: break                                       *)
(*           ...                                                           *)
(*       data = conn.recv(4096); buf += data                               *)
(***************************************************************************)
\* frames a stream holds at most
MaxStream == 2

\* bytes before the first frame: none, single bytes, the magic cut short,
\* the magic's letters out of order; none of them holds b'BGCF'
LeadingBytes ==
    {<<>>, <<0>>, <<66>>, <<66, 71, 67>>, <<70, 66, 71>>, <<66, 66, 71, 67, 1>>}

\* the frames of a stream: a HELLO with no payload, an ERROR with one byte,
\* and a HELLO whose payload holds the magic and a version byte
StreamFrames ==
    { [type |-> 1, payload |-> <<>>, seq |-> 0, flags |-> 0],
      [type |-> 127, payload |-> <<7>>, seq |-> 258, flags |-> 1],
      [type |-> 1, payload |-> <<66, 71, 67, 70, 1>>, seq |-> 258, flags |-> 0] }

RECURSIVE FramesBytes(_)
\* b''.join(pack_frame(...) for each frame)
FramesBytes(fs) ==
    IF fs = <<>> THEN <<>>
    ELSE pack_frame(Head(fs).type, Head(fs).payload, Head(fs).seq, Head(fs).flags).data
         \o FramesBytes(Tail(fs))

FrInit ==
    /\ \E g \in LeadingBytes :
       \E n \in 1 .. MaxStream :
       \E fs \in [1 .. n -> StreamFrames] :
          /\ fr_sent = [garbage |-> g, frames |-> fs]
          /\ fr_wire = g \o FramesBytes(fs)
    /\ fr_buf = <<>>
    /\ fr_out = <<>>
    /\ EmuIdle
    /\ BsIdle
    /\ PrIdle
    /\ RtIdle
    /\ BarIdle
    /\ SrvIdle
    /\ PhIdle

\* the inner loop: try_parse_frame returned a frame
FrParse ==
    /\ \E r \in {try_parse_frame(fr_buf)} :
          /\ r.found
          /\ fr_out' = Append(fr_out, r.frame)
          /\ fr_buf' = r.rest
    /\ UNCHANGED <<fr_sent, fr_wire>>
    /\ UNCHANGED notFrVars

\* try_parse_frame returned None and what it left of buf; recv() then
\* returns the next n bytes of the stream
FrRecv(n) ==
    /\ n <= Len(fr_wire)
    /\ \E r \in {try_parse_frame(fr_buf)} :
          /\ ~r.found
          /\ fr_buf' = r.rest \o Head0(fr_wire, n)
    /\ fr_wire' = Tail0(fr_wire, n)
    /\ UNCHANGED <<fr_sent, fr_out>>
    /\ UNCHANGED notFrVars

FrNext ==
    \/ FrParse
    \/ \E n \in 1 .. Len(fr_wire) : FrRecv(n)

SpecFramer == FrInit /\ [][FrNext]_vars

(***************************************************************************)
(* Claims about LUTOnlyEmulator                                            *)
(***************************************************************************)
\* the edge input of the latest step
LastIn == hist[Len(hist)]

\* the bit arriving on pin d of cell xy, from outputs o and edge input ein
PinBit(o, ein, xy, d) ==
    LET n == <<xy[1] + delta[d][1], xy[2] + delta[d][2]>>
    IN  IF n \in EmuCells THEN o[n][pin_map[opposite[d]]]
        ELSE IF d \in {"N", "S"} THEN ein[d][xy[1]] ELSE ein[d][xy[2]]

PinIdx(o, ein, xy) ==
    PinBit(o, ein, xy, "N") + 2 * PinBit(o, ein, xy, "E")
    + 4 * PinBit(o, ein, xy, "S") + 8 * PinBit(o, ein, xy, "W")

\* C1: one step() leaves the outputs of every inactive-parity cell as they
\* were and sets output i of every active-parity cell to bit idx of its LUT i,
\* idx = N | E<<1 | S<<2 | W<<3 taken from the neighbours' opposite-direction
\* outputs before the step, or from the edge input at a boundary.
C1_StepFrameEffect ==
    [][cycle' = cycle + 1 =>
        \A xy \in EmuCells :
            IF (xy[1] + xy[2]) % 2 # cycle % 2
            THEN outs'[xy] = outs[xy]
            ELSE \A i \in 0 .. 3 :
                    outs'[xy][i] = Bit(luts[xy][i], PinIdx(outs, hist'[Len(hist')], xy))]_vars

\* a second step has moved a 1 out of a cell updated by the first
C1_Witness ==
    /\ cycle = 2
    /\ \E xy \in updated : \E i \in 0 .. 3 :
          /\ outs[xy][i] = 1
          /\ Bit(luts[xy][i], 0) = 0
    /\ \E xy \in EmuCells \ updated : \E i \in 0 .. 3 : outs[xy][i] = 1

\* C2: the cycle counter is the number of steps since the last reset, and
\* the step taken when the counter was c updated exactly the cells with
\* (x+y) mod 2 = c mod 2 (phase A first after every reset).
C2_CycleCountsSteps ==
    /\ cycle = Len(hist)
    /\ cycle = 0 => updated = {}
    /\ cycle > 0 =>
          updated = {xy \in EmuCells : (xy[1] + xy[2]) % 2 = (cycle - 1) % 2}

C2_Witness ==
    /\ cycle = 3
    /\ Len(hist) = 3
    /\ updated = {xy \in EmuCells : (xy[1] + xy[2]) % 2 = 0}

ZeroRows == [y \in 0 .. EmuH - 1 |-> 0]

\* C10 as stated: on the W->E pass grid, from reset, step(W = v) returns an
\* all-zero E edge and the next step (W all zero) returns E = v, for every v.
C10_EastEqualsWestAfterTwoSteps ==
    luts = PassGrid =>
        /\ Len(hist) = 1 => edge_out.E = ZeroRows
        /\ (Len(hist) = 2 /\ hist[2].W = ZeroRows) => edge_out.E = hist[1].W

\* C10 amended: the second step returns v on the even rows and 0 on the odd
\* rows, so E = v exactly when v is zero on every odd row.
C10_EastEqualsWestOnEvenRows ==
    luts = PassGrid =>
        /\ Len(hist) = 1 => edge_out.E = ZeroRows
        /\ (Len(hist) = 2 /\ hist[2].W = ZeroRows) =>
              edge_out.E = [y \in 0 .. EmuH - 1 |->
                              IF y % 2 = 0 THEN hist[1].W[y] ELSE 0]

\* the run of test_west_to_east_propagates_in_two_steps: west = [1, 0, 1]
C10_Witness ==
    /\ luts = PassGrid
    /\ Len(hist) = 2
    /\ hist[1].W = [y \in 0 .. EmuH - 1 |-> IF y % 2 = 0 THEN 1 ELSE 0]
    /\ hist[2].W = ZeroRows
    /\ edge_out.E = hist[1].W

(***************************************************************************)
(* Claims about the bitstream codec                                        *)
(***************************************************************************)
\* the LUTs a Program holds at xy, read as the codec reads them
LutsAt(program, xy) ==
    IF xy \in DOMAIN program.cells
    THEN (IF program.cells[xy].has_luts THEN program.cells[xy].luts
          ELSE [i \in 0 .. 3 |-> IF i = 0 /\ program.cells[xy].has_lut
                                 THEN program.cells[xy].lut ELSE 0])
    ELSE [i \in 0 .. 3 |-> 0]

\* C5: unpack_bitstream_to_luts(pack_program_bitstream(P, order), width,
\* height, order) returns at every coordinate of the grid exactly the four
\* LUTs P holds there, all zero where P has no cell, for every scan order.
C5_UnpackRestoresLuts ==
    (bs_call.op = "unpack" /\ bs_call.order = bs_call.packed) =>
        /\ DOMAIN bs_call.luts = GridCells(BsW, BsH)
        /\ \A xy \in GridCells(BsW, BsH) :
              /\ DOMAIN bs_call.luts[xy] = 0 .. 3
              /\ \A i \in 0 .. 3 : bs_call.luts[xy][i] = LutsAt(bs_src, xy)[i]

\* a snake-packed Program that holds cells on the reversed row and none at (0,0)
C5_Witness ==
    /\ bs_call.op = "unpack"
    /\ bs_call.order = "snake"
    /\ bs_call.packed = "snake"
    /\ <<0, 0>> \notin DOMAIN bs_src.cells
    /\ <<0, 1>> \in DOMAIN bs_src.cells
    /\ bs_call.luts[<<0, 1>>][0] = 27032
    /\ bs_call.luts[<<1, 0>>][3] = 511
    /\ bs_call.luts[<<1, 1>>] # bs_call.luts[<<0, 1>>]

\* C7: applying to P the headered bitstream packed from P succeeds and leaves
\* the four LUTs at every coordinate as they were; coordinates that had no
\* cell hold an all-zero LUT cell afterwards.
C7_ApplyOwnBitstreamKeepsLuts ==
    (bs_call.op = "apply" /\ bs_call.used_header /\ bs_src = bs_pre) =>
        /\ bs_call.error = ""
        /\ DOMAIN bs_prog.cells = GridCells(BsW, BsH)
        /\ \A xy \in GridCells(BsW, BsH) :
              /\ LutsAt(bs_prog, xy) = LutsAt(bs_pre, xy)
              /\ bs_prog.cells[xy].has_luts
              /\ xy \notin DOMAIN bs_pre.cells => bs_prog.cells[xy].luts = [i \in 0 .. 3 |-> 0]

\* a col-major headered apply to a Program with a dense cell and a missing cell
C7_Witness ==
    /\ bs_call.op = "apply"
    /\ bs_call.used_header
    /\ bs_call.packed = "col-major"
    /\ bs_src = bs_pre
    /\ <<0, 1>> \notin DOMAIN bs_pre.cells
    /\ <<1, 0>> \in DOMAIN bs_pre.cells
    /\ bs_pre.cells[<<1, 0>>].has_luts
    /\ bs_prog.cells[<<1, 0>>].luts[1] = 4660
    /\ <<0, 1>> \in DOMAIN bs_prog.cells

(***************************************************************************)
(* Claims about the BGCF wire protocol                                     *)
(***************************************************************************)
\* the first parse of a packed frame returned what pack_frame was given
ParsedAsSent ==
    /\ pr_call.found
    /\ pr_call.frame.type = pr_sent.type
    /\ pr_call.frame.flags = pr_sent.flags
    /\ pr_call.frame.seq = pr_sent.seq
    /\ pr_call.frame.payload = pr_sent.payload
    /\ pr_call.frame.crc_ok
    /\ pr_buf = <<>>

\* C6: for every message type, payload, seq in [0, 0xFFFF] and flags in
\* [0, 0xFF], try_parse_frame(pack_frame(type, payload, seq, flags)) returns a
\* frame with exactly that type, flags, seq and payload, with crc_ok = true,
\* and an empty remainder.
C6_ParseRestoresPackedFrame ==
    (pr_call.op = "parse" /\ pr_call.first) => ParsedAsSent

\* the round trip does hold for the payloads the u16 length field can count
C6_ParseRestoresShortPayload ==
    (pr_call.op = "parse" /\ pr_call.first /\ Len(pr_sent.payload) <= 65535) => ParsedAsSent

\* a frame whose payload holds the magic came back whole
C6_Witness ==
    /\ pr_call.op = "parse"
    /\ pr_call.first
    /\ pr_sent.seq = 65535
    /\ pr_sent.flags = 255
    /\ Len(pr_sent.payload) = 5
    /\ ParsedAsSent

(***************************************************************************)
(* Claims about lanes routed edge to edge                                  *)
(***************************************************************************)
\* the cell b is occupied and holds no ROUTE4 cell
IsBlocked(b) == b \in router.occ /\ b \notin DOMAIN router.route_cells

\* C8: with (5,5) occupied on the otherwise empty 10x10 grid, wire_edge_to_edge
\* succeeds for the W-to-E lane of every row 0..7, and in the LUT grid built
\* from the result the cell (4,5) has S-output LUT 0xFF00 (S driven from W).
C8_Block55LanesRouteAndTurnSouth ==
    IsBlocked(Block55) =>
        /\ rt_call.op = "wire_edge_to_edge" => rt_call.error = ""
        /\ (rt_call.op = "validate" /\ rt_call.lanes = NumLanes) =>
              /\ rt_call.error = ""
              /\ rt_call.grid[<<4, 5>>][2] = VAR_MASKS["W"]

\* the row-5 lane was attempted with (5,5) blocked
C8_Witness ==
    /\ IsBlocked(Block55)
    /\ rt_call.op = "wire_edge_to_edge"
    /\ rt_call.lanes = 6
    /\ <<4, 5>> \in DOMAIN router.route_cells

\* C9: in the LUT grid built from any lanes routed by wire_edge_to_edge (a lane
\* going around an occupied cell included), validate_lutgrid_connectivity
\* reports no broken path, no out-of-bounds step and no cycle.
C9_RoutedLanesValidate ==
    rt_call.op = "validate" => (rt_call.error = "" /\ rt_call.issues = {})

\* a grid was validated whose lane left its row to pass a blocked cell
C9_Witness ==
    /\ rt_call.op = "validate"
    /\ \E b \in GridCells(LaneW, LaneH) :
          /\ IsBlocked(b)
          /\ b[2] < rt_call.lanes
          /\ \E k \in 1 .. Len(rt_prog) : rt_prog[k][2] # b[2] /\ rt_prog[k][2] >= rt_call.lanes

(***************************************************************************)
(* Claims about route_program                                              *)
(***************************************************************************)
\* the source src of a cell at (x, y) is a neighbour whose out index is the
\* direction from it to (x, y)
NeighbourFacing(src, x, y) ==
    /\ manhattan(<<src.x, src.y>>, <<x, y>>) = 1
    /\ src.out = pin_map[dir_from_delta(x - src.x, y - src.y)]

\* C3: after route_program(P), every input source of type cell of every cell
\* of the returned Program (original and ROUTE4) is at Manhattan distance 1
\* from the sink and its out index is the direction from the source to the
\* sink, also where the routed path turns.
C3_RoutedSourcesFaceTheirSinks ==
    (rp_call.op = "route_program" /\ rp_call.error = "") =>
        \A k \in 1 .. Len(rp_call.program.cells) : \A i \in 0 .. 3 :
            LET c == rp_call.program.cells[k]
            IN  c.inputs[i].type = "cell" => NeighbourFacing(c.inputs[i], c.x, c.y)

\* a Program was routed whose source output already faced the first hop and
\* whose path turns
C3_Witness ==
    /\ rp_call.op = "route_program"
    /\ rp_call.error = ""
    /\ Len(rp_call.program.cells) > 3
    /\ rp_prog.cells[1].x # rp_prog.cells[2].x
    /\ rp_prog.cells[1].y # rp_prog.cells[2].y
    /\ \E i \in 0 .. 3 : /\ rp_call.program.cells[3].inputs[i].type = "cell"
                         /\ NeighbourFacing(rp_call.program.cells[3].inputs[i],
                                            rp_call.program.cells[3].x, rp_call.program.cells[3].y)

\* the one-variable masks of the input pins N, E, S, W
PinMask == <<43690, 52428, 61680, 65280>>

\* the pins whose one-variable mask the LUT value v is
MaskedPins(v) == {p \in 0 .. 3 : PinMask[p + 1] = v}

\* C4: after any sequence of wire_adjacent_to, wire_from_edge_to,
\* wire_to_edge_from and wire_edge_to_edge calls, each non-zero output LUT of
\* every ROUTE4 cell of the pass is the one-variable mask of exactly one input
\* pin, and the input source on that pin is not a constant.
C4_Route4LutsAreSinglePinMasks ==
    \A k \in DOMAIN router.route_cells : \A d \in 0 .. 3 :
        LET c == router.route_cells[k]
        IN  c.luts[d] # 0 =>
                /\ Cardinality(MaskedPins(c.luts[d])) = 1
                /\ \A p \in MaskedPins(c.luts[d]) : c.inputs[p].type # "const"

\* two wiring calls have returned, and a ROUTE4 cell of the pass drives two
\* outputs from two different pins
C4_Witness ==
    /\ rt_call.n >= 2
    /\ rt_call.error = ""
    /\ \E k \in DOMAIN router.route_cells : \E d, e \in 0 .. 3 :
           LET c == router.route_cells[k]
           IN  c.luts[d] # 0 /\ c.luts[e] # 0 /\ c.luts[d] # c.luts[e]

(***************************************************************************)
(* Claims about NeighborBarrier                                            *)
(***************************************************************************)
\* the barrier may leave its current (epoch, phase): the tile has reported
\* local_done for it and so has every direction the barrier expects
BarrierComplete ==
    /\ <<barrier.state.epoch, barrier.state.phase>> \in barrier.local_done
    /\ \A d \in Dirs :
          barrier.expect[d] =>
             <<barrier.state.epoch, barrier.state.phase, d>>
                \in barrier.neighbor_flags

\* C13: a call of advance() changes (epoch, phase) only when local_done was
\* called and every expected direction is marked done for the current
\* (epoch, phase), and then moves one step, (e,A) to (e,B) or (e,B) to
\* (e+1,A); when the condition does not hold it leaves (epoch, phase) as it
\* was. No other call changes (epoch, phase).
C13_AdvanceMovesOneStepWhenComplete ==
    [][IF bar_call'.op = "advance" /\ BarrierComplete
       THEN barrier'.state =
               IF barrier.state.phase = "A"
               THEN [epoch |-> barrier.state.epoch, phase |-> "B"]
               ELSE [epoch |-> barrier.state.epoch + 1, phase |-> "A"]
       ELSE barrier'.state = barrier.state]_vars

\* a barrier expecting E has gone (0,A), (0,B), (1,A) by two calls of
\* advance(), each after local_done and the report of E
C13_Witness ==
    /\ bar_call.op = "advance"
    /\ barrier.expect["E"]
    /\ barrier.state = [epoch |-> 1, phase |-> "A"]
    /\ barrier.local_done = {<<0, "A">>, <<0, "B">>}
    /\ <<0, "A", "E">> \in barrier.neighbor_flags
    /\ <<0, "B", "E">> \in barrier.neighbor_flags

\* the status the header of a neighbour is to get: unexpected_side from a
\* side the barrier does not expect, else epoch_mismatch, phase_mismatch,
\* duplicate or ok; a repeated header that also mismatches may be reported
\* either as the mismatch or as a duplicate
HeaderStatuses(direction, epoch, phase, marked) ==
    LET mismatch == IF epoch # barrier.state.epoch THEN {"epoch_mismatch"}
                    ELSE IF phase # barrier.state.phase THEN {"phase_mismatch"}
                    ELSE {}
    IN  IF ~(direction \in Dirs /\ barrier.expect[direction])
        THEN {"unexpected_side"}
        ELSE IF mismatch # {} THEN mismatch \cup (IF marked THEN {"duplicate"} ELSE {})
        ELSE IF marked THEN {"duplicate"}
        ELSE {"ok"}

\* C14: mark_neighbor_header(direction, epoch, phase) returns unexpected_side
\* for a side the barrier does not expect, epoch_mismatch when the epoch is
\* not the current one, phase_mismatch when only the phase differs, duplicate
\* when (epoch, phase, direction) was marked before, and ok otherwise.
C14_HeaderStatusNamesTheFault ==
    bar_call.op = "mark_neighbor_header" =>
       bar_call.status \in HeaderStatuses(bar_call.direction, bar_call.epoch,
                                          bar_call.phase, bar_call.marked)

\* a barrier that expects no W neighbour has taken a first header from W for
\* its current (epoch, phase)
C14_Witness ==
    /\ bar_call.op = "mark_neighbor_header"
    /\ bar_call.direction = "W"
    /\ ~barrier.expect["W"]
    /\ bar_call.epoch = barrier.state.epoch
    /\ bar_call.phase = barrier.state.phase
    /\ ~bar_call.marked

(***************************************************************************)
(* Claims about step() on incomplete edge inputs                           *)
(***************************************************************************)
\* the edge input with every absent side and every missing position set to 0
ZeroFilled(ein) ==
    [d \in Dirs |->
        [i \in 0 .. SideLen(d) - 1 |->
            IF d \in DOMAIN ein /\ i \in DOMAIN ein[d] THEN ein[d][i] ELSE 0]]

\* C15: step() completes for every edge_in, and its effect is that of the
\* step on the edge input in which each absent side and each position past
\* the end of a supplied list is 0.
C15_StepReadsMissingEdgeBitsAsZero ==
    [][Len(hist') = Len(hist) + 1 =>
          /\ outs' = step_outs(luts, outs, cycle, ZeroFilled(LastIn'))
          /\ cycle' = cycle + 1
          /\ edge_out' = collect_edge_out(outs')]_vars

\* step() was called with a W list that stops before the last row
C15_Witness ==
    /\ hist # <<>>
    /\ DOMAIN LastIn = {"W"}
    /\ DOMAIN LastIn["W"] = 0 .. EmuH - 2
    /\ "error" \in DOMAIN edge_out

(***************************************************************************)
(* Claims about the TCP server                                             *)
(***************************************************************************)
\* the frames the handler of connection c has taken from its input
Handled(c) == SubSeq(conns[c].sent, 1, Len(conns[c].sent) - Len(conns[c].inbox))

\* the handler of c is between two frames, or gone
Settled(c) == conns[c].pc \in {"recv", "exited"}

\* encode_name_u64_map({name: v}) in an OUTPUTS frame
OutputsFrame(name, v) == [Frame("OUTPUTS") EXCEPT !.name = name, !.val = v]

\* no connection but c has had a SET_INPUTS handled
OnlySetter(c) ==
    \A d \in DOMAIN conns \ {c} :
       \A i \in 1 .. Len(Handled(d)) : Handled(d)[i].type # "SET_INPUTS"

\* C11: on the identity Program, once a connection's SET_INPUTS west = v,
\* STEP and GET_OUTPUTS have been handled in that order (no other connection
\* setting inputs), the latest frame written back is OUTPUTS with
\* east = v mod 2^9, whatever v and the cycle count of the STEP.
C11_GetOutputsReturnsWestOnEast ==
    \A c \in DOMAIN conns :
       LET h == Handled(c)
           n == Len(h)
       IN  ( /\ n >= 3
             /\ h[n].type = "GET_OUTPUTS"
             /\ h[n - 1].type = "STEP"
             /\ h[n - 2].type = "SET_INPUTS"
             /\ h[n - 2].name = "west"
             /\ Settled(c)
             /\ OnlySetter(c) )
           => /\ conns[c].outbox # <<>>
              /\ conns[c].outbox[Len(conns[c].outbox)] =
                    OutputsFrame("east", h[n - 2].val % Pow2(IdLanes))

\* connection 1 has had SET_INPUTS west = 840, a STEP of two cycles and
\* GET_OUTPUTS handled, alone on the server
C11_Witness ==
    /\ Handled(1) = <<SetInputsFrame("west", 840), StepFrame(2, 0), GetOutputsFrame>>
    /\ Settled(1)
    /\ conns[2].sent = <<>>
    /\ servers["L"].cycle = 2

\* the cycles of the STEP frames the handlers of server s have taken
RECURSIVE StepCyclesIn(_)
StepCyclesIn(h) ==
    IF h = <<>> THEN 0
    ELSE (IF Head(h).type = "STEP" THEN Head(h).val ELSE 0) + StepCyclesIn(Tail(h))

RECURSIVE CyclesRequested(_, _)
CyclesRequested(s, k) ==
    IF k = 0 THEN 0
    ELSE CyclesRequested(s, k - 1)
         + (IF conns[k].server = s THEN StepCyclesIn(Handled(k)) ELSE 0)

InRunStream(s) ==
    {c \in DOMAIN conns : conns[c].server = s /\ conns[c].pc \in {"run_phase", "run_incr"}}

\* C19: with several clients sending STEP to a server without links, at most
\* one handler is inside run_stream at a time; the k-th subcycle executed
\* starts from counter k-1 and uses the phase of that counter's parity (none
\* lost, none run twice); and when every handler is between frames the
\* counter equals the sum of the cycles of the STEP frames taken.
C19_StepsAreSerialised ==
    \A s \in DOMAIN servers :
       /\ Cardinality(InRunStream(s)) <= 1
       /\ \A i \in 1 .. Len(servers[s].phases) :
             servers[s].phases[i] = <<i - 1, IF (i - 1) % 2 = 0 THEN "A" ELSE "B">>
       /\ (\A c \in DOMAIN conns : conns[c].server = s => Settled(c))
             => servers[s].cycle = CyclesRequested(s, Len(conns))

\* one handler is in the second cycle of its STEP 2 while the handler of
\* another connection waits for the lock with a STEP of its own
C19_Witness ==
    \E c, d \in DOMAIN conns :
       /\ c # d
       /\ conns[c].pc = "run_incr"
       /\ conns[c].cycles = 2
       /\ conns[c].left = 1
       /\ conns[d].pc = "lock"
       /\ servers["L"].lock = c

\* C20: the shared state of a server (current_inputs, the links table with
\* each link's cycle and last_sent) changes only in a step of the handler
\* that holds the server's lock.
C20_SharedStateChangesUnderTheLock ==
    [][\A s \in DOMAIN servers :
          (servers'[s].current_inputs # servers[s].current_inputs
             \/ servers'[s].links # servers[s].links)
          => /\ servers[s].lock # None
             /\ conns'[servers[s].lock] # conns[servers[s].lock]]_vars

\* a SET_INPUTS has been handled while the handler of another connection
\* holds the lock between the two cycles of its STEP
C20_Witness ==
    \E c, d \in DOMAIN conns :
       /\ c # d
       /\ servers["L"].lock = c
       /\ conns[c].pc = "run_phase"
       /\ conns[c].left = 1
       /\ conns[c].cycles = 2
       /\ Handled(d) = <<SetInputsFrame("west", 328)>>
       /\ servers["L"].current_inputs["west"] = 328

\* the number of frames of seq equal to f
RECURSIVE CountOf(_, _)
CountOf(seq, f) ==
    IF seq = <<>> THEN 0
    ELSE (IF Head(seq) = f THEN 1 ELSE 0) + CountOf(Tail(seq), f)

\* nothing but connection c has been written to by a client
OnlyClient(c) ==
    /\ conns[c].opener = "client"
    /\ \A d \in DOMAIN conns \ {c} : conns[d].opener = "client" => conns[d].sent = <<>>

\* the first frame handled on c was a LINK, answered by LINK_ACK
LinkedFirst(c) ==
    /\ Handled(c) # <<>>
    /\ Handled(c)[1].type = "LINK"
    /\ conns[c].outbox # <<>>
    /\ conns[c].outbox[1].type = "LINK_ACK"

\* the seam dimension of the peer of a LINK request: its height across an
\* E or W seam, its width across an N or S seam
PeerSeam(f) ==
    IF f.dir_code \in {0, 2} THEN servers[f.host].prog.width
    ELSE servers[f.host].prog.height

\* C18: the LINK_ACK of a successful LINK carries the minimum of the
\* requested lanes (when a number is requested), the number of bits of the
\* local output bus and the peer's seam dimension.
C18_LinkAckCarriesTheClampedLanes ==
    \A c \in DOMAIN conns :
       ( /\ conns[c].job.type = "LINK"
         /\ conns[c].pc = "recv"
         /\ conns[c].outbox # <<>>
         /\ conns[c].outbox[Len(conns[c].outbox)].type = "LINK_ACK" )
       => LET f == conns[c].job
              bus == Cardinality(DOMAIN Srv(c).prog.output_bits[f.local_out])
              most == Min(bus, PeerSeam(f))
          IN  conns[c].outbox[Len(conns[c].outbox)].lanes =
                 IF f.lanes > 0 THEN Min(f.lanes, most) ELSE most

\* a LINK asking for all 9 lanes of east towards the peer of height 4 was
\* answered by LINK_ACK
C18_Witness ==
    /\ conns[1].job = LinkFrame(1, "east", "west", "R", IdLanes)
    /\ servers["R"].prog.height = RpH
    /\ conns[1].pc = "recv"
    /\ conns[1].outbox # <<>>
    /\ conns[1].outbox[1].type = "LINK_ACK"

\* the cycles of all STEP frames written by clients
RECURSIVE ClientCycles(_)
ClientCycles(k) ==
    IF k = 0 THEN 0
    ELSE ClientCycles(k - 1)
         + (IF conns[k].opener = "client" THEN StepCyclesIn(conns[k].sent) ELSE 0)

\* C16: a handler that takes a STEP frame with the forwarded flag set only
\* runs the cycles on its own server's emulator: until it is back at its
\* receive loop it writes no frame on any connection, opens none, and
\* changes no other server; and no server's counter exceeds the cycles the
\* clients asked for (no cascade between servers linked both ways).
C16_ForwardedStepStaysLocal ==
    /\ [](\A s \in DOMAIN servers : servers[s].cycle <= ClientCycles(Len(conns)))
    /\ [][\A c \in DOMAIN conns :
            ( \/ /\ Parsed(c, "STEP")
                 /\ Head(conns[c].inbox).flags # 0
                 /\ conns'[c].pc # "recv"
              \/ /\ conns[c].job.type = "STEP"
                 /\ conns[c].job.flags # 0
                 /\ conns[c].pc \in {"lock", "run_phase", "run_incr", "sample"}
                 /\ (conns'[c].pc # conns[c].pc \/ conns'[c].left # conns[c].left) )
            => /\ DOMAIN conns' = DOMAIN conns
               /\ \A k \in DOMAIN conns \ {c} : conns'[k] = conns[k]
               /\ conns'[c].outbox = conns[c].outbox
               /\ conns'[c].pc \in {"lock", "run_phase", "run_incr", "recv"}
               /\ \A t \in DOMAIN servers \ {conns[c].server} :
                     servers'[t] = servers[t]]_vars

\* with the two servers linked both ways, L has run a forwarded STEP of two
\* cycles to its end
C16_Witness ==
    /\ DOMAIN servers["L"].links # {}
    /\ DOMAIN servers["R"].links # {}
    /\ conns[1].job = StepFrame(2, 1)
    /\ conns[1].pc = "recv"
    /\ Len(Handled(1)) = 2
    /\ servers["L"].cycle = 2

\* the connection a LINK handled on c opened to the peer
LinkSock(c) == conns[c].psock

\* C17: after a LINK, for the non-forwarded STEP frames handled on that
\* connection, the server has written on the link one STEP cycles=1 frame
\* with the forwarded flag per local subcycle, each after the SET_INPUTS of
\* its subcycle; and once the peer has read them all, the peer has advanced
\* by as many subcycles.
C17_OneForwardedStepPerSubcycle ==
    \A c \in DOMAIN conns :
       ( /\ OnlyClient(c)
         /\ LinkedFirst(c)
         /\ Settled(c)
         /\ \A i \in 2 .. Len(Handled(c)) :
               \/ Handled(c)[i].type = "SET_INPUTS"
               \/ Handled(c)[i].type = "STEP" /\ Handled(c)[i].flags = 0 )
       => LET n == StepCyclesIn(Handled(c))
              k == LinkSock(c)
          IN  /\ CountOf(conns[k].sent, StepFrame(1, 1)) = n
              /\ n > 0 => conns[k].sent[Len(conns[k].sent)] = StepFrame(1, 1)
              /\ (conns[k].inbox = <<>> /\ Settled(k))
                    => servers[conns[k].server].cycle = n

\* L has handled LINK and then a non-forwarded STEP of two cycles
C17_Witness ==
    /\ OnlyClient(1)
    /\ LinkedFirst(1)
    /\ Settled(1)
    /\ Len(Handled(1)) = 2
    /\ Handled(1)[2] = StepFrame(2, 0)

\* C12: with left's east linked to right's west, once left has handled the
\* pairs (SET_INPUTS west = v_k, STEP 2) and right has read every frame
\* left forwarded, right's east is the latest v_k (mod 2^9).
C12_RightEastFollowsLeftWest ==
    \A c \in DOMAIN conns :
       ( /\ OnlyClient(c)
         /\ LinkedFirst(c)
         /\ Handled(c)[1] = LinkFrame(1, "east", "west", "R", 0)
         /\ Settled(c)
         /\ Len(Handled(c)) >= 3
         /\ Len(Handled(c)) % 2 = 1
         /\ \A i \in 2 .. Len(Handled(c)) :
               IF i % 2 = 0
               THEN Handled(c)[i].type = "SET_INPUTS" /\ Handled(c)[i].name = "west"
               ELSE Handled(c)[i] = StepFrame(2, 0)
         /\ conns[LinkSock(c)].inbox = <<>>
         /\ Settled(LinkSock(c)) )
       => out_sample(servers["R"].prog, servers["R"].current_inputs, "east")
             = Handled(c)[Len(Handled(c)) - 1].val % Pow2(IdLanes)

\* left has handled LINK, SET_INPUTS west = 328 and STEP 2, and right has
\* nothing left to read on the link
C12_Witness ==
    /\ OnlyClient(1)
    /\ Handled(1) = <<LinkFrame(1, "east", "west", "R", 0),
                      SetInputsFrame("west", 328), StepFrame(2, 0)>>
    /\ Settled(1)
    /\ conns[LinkSock(1)].inbox = <<>>
    /\ Settled(LinkSock(1))

(***************************************************************************)
(* Claims about LOAD_CHUNK and APPLY                                       *)
(***************************************************************************)
\* the handler on c takes the frame at the head of its inbox in this step
Takes(c, type) ==
    /\ Parsed(c, type)
    /\ conns'[c].inbox = Tail(conns[c].inbox)

\* C30: a LOAD_CHUNK whose offset plus chunk length exceeds the total
\* declared for its session leaves that session's buffer and written count
\* as they were (for a session the frame itself declares: all zero, and 0),
\* and every other session untouched.
C30_OverflowChunkIsDropped ==
    [][\A c \in DOMAIN conns :
          Takes(c, "LOAD_CHUNK") =>
             LET r == parse_load_chunk(Head(conns[c].inbox))
                 before == Srv(c).sessions
                 after == servers'[conns[c].server].sessions
                 known == r.sid \in DOMAIN before
                 declared == IF known THEN before[r.sid].total ELSE r.total
             IN  (r.error = "" /\ r.off + Len(r.chunk) > declared) =>
                    /\ DOMAIN after = DOMAIN before \cup {r.sid}
                    /\ \A k \in DOMAIN before : after[k] = before[k]
                    /\ ~known => /\ after[r.sid].written = 0
                                 /\ after[r.sid].buf = [i \in 1 .. r.total |-> 0]]_vars

\* a session holds one written byte and the client's latest frame, already
\* handled, is a chunk for it that runs past its total
C30_Witness ==
    /\ conns[1].inbox = <<>>
    /\ Len(conns[1].sent) >= 2
    /\ \E f \in {conns[1].sent[Len(conns[1].sent)]} :
          /\ f.type = "LOAD_CHUNK"
          /\ parse_load_chunk(f).error = ""
          /\ f.sid \in DOMAIN servers["L"].sessions
          /\ servers["L"].sessions[f.sid].written = 1
          /\ f.off + f.clen > servers["L"].sessions[f.sid].total

\* every byte offset of [0, total) has been written by a chunk
Completed(sess) == \A i \in 0 .. sess.total - 1 : i \in sess.covered

\* C29: APPLY loads the buffer of the highest-numbered session all of whose
\* byte offsets have been written, and with no such session it makes no
\* load call.
C29_ApplyLoadsHighestCompletedSession ==
    [][\A c \in DOMAIN conns :
          Takes(c, "APPLY") =>
             LET ss == Srv(c).sessions
                 done == {sid \in DOMAIN ss : Completed(ss[sid])}
                 ap == servers'[conns[c].server].apply
             IN  IF done = {} THEN ap = Srv(c).apply
                 ELSE LET top == CHOOSE sid \in done : \A o \in done : o <= sid
                      IN  /\ ap.sid = top
                          /\ ap.data = ss[top].buf
                          /\ ap.result = "ok"]_vars

\* the client has written both bytes of a session and then APPLY, and the
\* server has handled them
C29_Witness ==
    /\ conns[1].inbox = <<>>
    /\ conns[1].sent = <<LoadChunkFrame(1, 2, 0, 2, <<7, 9>>), Frame("APPLY")>>
    /\ servers["L"].apply.sid = 1

(***************************************************************************)
(* Claims about the responses' seq and about SHUTDOWN                      *)
(***************************************************************************)
\* C28: on a connection, every response the server writes carries the seq
\* of the response before it plus one (mod 2^16), whatever the two types.
C28_SeqCountsResponses ==
    \A c \in DOMAIN conns :
       conns[c].opener = "client" =>
          \A i \in 1 .. Len(conns[c].outbox) - 1 :
             conns[c].outbox[i + 1].seq = (conns[c].outbox[i].seq + 1) % 65536

\* the server has answered HELLO and then a LINK on one connection
C28_Witness ==
    \E c \in DOMAIN conns :
       /\ conns[c].opener = "client"
       /\ Len(conns[c].outbox) = 2
       /\ conns[c].outbox[1].type = "HELLO"
       /\ conns[c].outbox[2].type = "LINK_ACK"

\* C21: once a handler has taken a SHUTDOWN frame with a good CRC, the
\* accept loop of that server stops, whatever the other connections do.
C21_ShutdownStopsTheAcceptLoop ==
    \A sid \in ServerIds :
       servers[sid].shutdown_event ~> ~servers[sid].listening

\* the main loop has returned after a SHUTDOWN while another connection of
\* the server is open and idle
C21_Witness ==
    /\ servers["L"].shutdown_event
    /\ ~servers["L"].listening
    /\ \E c \in DOMAIN conns :
          /\ conns[c].server = "L"
          /\ conns[c].open
          /\ conns[c].pc = "recv"
          /\ conns[c].inbox = <<>>

(***************************************************************************)
(* Claims about the receive loop                                           *)
(***************************************************************************)
\* the dict try_parse_frame returns for a frame packed from these arguments
ParsedFrame(a) ==
    [version |-> VERSION, type |-> a.type, flags |-> a.flags, seq |-> a.seq,
     payload |-> a.payload, crc_ok |-> TRUE]

\* C27: from a stream of bytes without the magic followed by frames
\* F1..Fn, received in pieces of any sizes, the loop delivers a prefix of
\* F1..Fn at every moment, each with crc_ok true, and all of them once the
\* whole stream has been received and parsed.
C27_FramerDeliversEveryFrameOnce ==
    /\ Len(fr_out) <= Len(fr_sent.frames)
    /\ \A i \in DOMAIN fr_out : fr_out[i] = ParsedFrame(fr_sent.frames[i])
    /\ (fr_wire = <<>> /\ ~try_parse_frame(fr_buf).found)
          => Len(fr_out) = Len(fr_sent.frames)

\* two frames after bytes that start like the magic, received in more than
\* one piece with a frame cut in two, have both been delivered
C27_Witness ==
    /\ fr_sent.garbage = <<66, 71, 67>>
    /\ Len(fr_sent.frames) = 2
    /\ fr_sent.frames[1].payload = <<66, 71, 67, 70, 1>>
    /\ fr_wire = <<>>
    /\ Len(fr_out) = 2
    /\ fr_buf = <<>>

\* ---------------------------------------------------------------------------
\* Damaged blobs given to apply_bitstream_to_program (bitstream.py 87-177)
\* ---------------------------------------------------------------------------

\* a Program of other dimensions than BsW x BsH, to pack a foreign blob from
ForeignProgram ==
    [width |-> 1, height |-> BsH,
     cells |-> [xy \in GridCells(1, BsH) |-> CellChoice(xy, 1)]]

\* the ways a headered blob is damaged before it is applied
BlobFaults ==
    {"magic", "version", "header_size", "order", "crc", "payload", "truncate", "short"}

\* the blob with one field overwritten, one payload byte changed or bytes cut off
damage(data, kind) ==
    CASE kind = "magic" -> [data EXCEPT ![1] = Xor8(@, 1)]
      [] kind = "version" -> [data EXCEPT ![5] = BS_VERSION + 1]
      [] kind = "header_size" -> [data EXCEPT ![7] = HEADER_SIZE + 8]
      [] kind = "order" -> [data EXCEPT ![13] = 3]
      [] kind = "crc" -> [data EXCEPT ![19] = Xor8(@, 1)]
      [] kind = "payload" -> [data EXCEPT ![HEADER_SIZE + 1] = Xor8(@, 128)]
      [] kind = "truncate" -> Head0(data, Len(data) - 1)
      [] kind = "short" -> Head0(data, HEADER_SIZE - 1)

\* a blob packed from a Program of other dimensions
BsPackForeign(order) ==
    /\ bs_call.op \in {"none", "apply"}
    /\ bs_data' = pack_program_bitstream_with_header(ForeignProgram, order, 0)
    /\ bs_call' = [op |-> "pack", order |-> order, header |-> TRUE]
    /\ bs_src' = ForeignProgram
    /\ UNCHANGED <<bs_prog, bs_pre>>
    /\ UNCHANGED notBsVars

\* the packed blob is damaged on its way to the apply, once
BsDamage(kind) ==
    /\ bs_call.op = "pack" /\ bs_call.header
    /\ bs_src = bs_prog
    /\ bs_data = pack_program_bitstream_with_header(bs_prog, bs_call.order, bs_data[14])
    /\ bs_data' = damage(bs_data, kind)
    /\ UNCHANGED <<bs_prog, bs_call, bs_src, bs_pre>>
    /\ UNCHANGED notBsVars

\* one blob is packed, possibly damaged, and applied to a Program as constructed
BsFaultNext ==
    \/ bs_call.op = "none" /\ \E order \in Orders, flags \in {0, 1} : BsPackWithHeader(order, flags)
    \/ bs_call.op = "none" /\ \E order \in Orders : BsPackForeign(order)
    \/ \E kind \in BlobFaults : BsDamage(kind)
    \/ BsApply

SpecBsFault == BsInit /\ [][BsFaultNext]_vars

\* what the claim names, read off the blob and the Program it is applied to
bad_magic(data) == Len(data) < 4 \/ SubSeq(data, 1, 4) # BS_MAGIC

HeaderFault(data) ==
    /\ Len(data) >= HEADER_SIZE
    /\ \/ GetU16(data, 5) # BS_VERSION
       \/ GetU16(data, 7) # HEADER_SIZE
       \/ data[13] \notin DOMAIN ORDER_BY_CODE

crc_mismatch(data) ==
    /\ Len(data) >= HEADER_SIZE
    /\ crc32(Tail0(data, HEADER_SIZE)) # GetU32(data, 19)

dims_differ(data, program) ==
    /\ Len(data) >= HEADER_SIZE
    /\ <<GetU16(data, 9), GetU16(data, 11)>> # <<program.width, program.height>>

BlobIsBad(data, program) ==
    bad_magic(data) \/ HeaderFault(data) \/ crc_mismatch(data) \/ dims_differ(data, program)

\* C26: whenever the blob given to apply_bitstream_to_program has a bad magic,
\* an unsupported version, an unexpected header size, an unknown scan order
\* code, a payload whose CRC32 differs from the header's, or dimensions other
\* than the Program's, the call raises and the Program's cells (their LUTs and
\* the cell list) are as they were before the call
C26_BadBlobRaisesAndChangesNothing ==
    (bs_call.op = "apply" /\ BlobIsBad(bs_data, bs_pre))
        => (bs_call.error # "" /\ bs_prog = bs_pre)

\* a blob packed for other dimensions has been applied and was refused
C26_Witness ==
    /\ bs_call.op = "apply"
    /\ dims_differ(bs_data, bs_pre)
    /\ ~bad_magic(bs_data)
    /\ bs_call.error = "bitstream dims do not match program dims"
    /\ bs_prog = bs_pre

\* ---------------------------------------------------------------------------
\* Hops merged into one ROUTE4 cell (router.py 184-237)
\* ---------------------------------------------------------------------------

\* the cell the hops go through and the sources they carry
MergeCell == <<1, 1>>
MergeUpstreams ==
    {CellSrc(0, 1, 1), CellSrc(1, 0, 2), [type |-> "input", name |-> "a", bit |-> 0]}

\* router._add_or_merge_route4(x, y, out_dir, in_pin, upstream), as one pass of
\* a wiring call makes it
AddOrMergeRoute4 ==
    /\ RtReady
    /\ \E out_dir \in Dirs, in_pin \in Dirs, upstream \in MergeUpstreams :
           \E r \in {add_or_merge_route4(router, MergeCell[1], MergeCell[2],
                                         out_dir, in_pin, upstream)} :
               /\ router' = r.R
               /\ rt_call' = [op |-> "add_or_merge", n |-> rt_call.n + 1, error |-> r.error,
                              out_dir |-> out_dir, in_pin |-> in_pin, upstream |-> upstream]
               /\ UNCHANGED rt_prog
               /\ UNCHANGED notRtVars

MergeNext == AddOrMergeRoute4

SpecMerge == RtInit /\ [][MergeNext]_vars

\* the request conflicts with what the cell holds
out_taken(cell, out_dir) == cell.luts[pin_map[out_dir]] # 0

same_mapping(cell, out_dir, in_pin, upstream) ==
    /\ cell.luts[pin_map[out_dir]] = SumBits(pin_map[in_pin], 0)
    /\ cell.inputs[pin_map[in_pin]] = upstream

pin_taken(cell, in_pin, upstream) ==
    cell.inputs[pin_map[in_pin]] \notin {Const0, upstream}

\* C23: a hop merged into a ROUTE4 cell that exists in the pass raises exactly
\* when its out direction is already assigned to another mapping or upstream,
\* or its input pin already holds another source; a rejected request and a
\* request identical to an existing mapping leave the four LUTs and the four
\* inputs of the cell as they were
C23_MergeRejectedExactlyOnConflict ==
    [][(rt_call'.op = "add_or_merge" /\ MergeCell \in DOMAIN router.route_cells) =>
          LET a == rt_call'
              cell == router.route_cells[MergeCell]
              identical == out_taken(cell, a.out_dir)
                           /\ same_mapping(cell, a.out_dir, a.in_pin, a.upstream)
              conflict == \/ out_taken(cell, a.out_dir) /\ ~identical
                          \/ pin_taken(cell, a.in_pin, a.upstream)
          IN  /\ (a.error # "") <=> conflict
              /\ (a.error # "" \/ identical) => router'.route_cells[MergeCell] = cell]_vars

\* the second hop into the cell was rejected for its input pin alone
C23_Witness ==
    /\ rt_call.op = "add_or_merge"
    /\ rt_call.n = 2
    /\ rt_call.error = "ROUTE4 input pin already used"
    /\ MergeCell \in DOMAIN router.route_cells

(***************************************************************************)
(* physicalize_to_edges (bitgrid/physicalize.py), the LUT-only machine of  *)
(* its result and the logical Emulator of the Program it was given         *)
(***************************************************************************)
InputSrc(name, bit) == [type |-> "input", name |-> name, bit |-> bit]

\* Cell(x, y, inputs, op='ROUTE4', params={'luts': l4})
LogicCell(x, y, inputs, l4) ==
    [x |-> x, y |-> y, op |-> "ROUTE4", inputs |-> inputs, luts |-> l4]

\* a cell of new_cells: an object of the router's _route_cells (read at its
\* coordinate when the Program is built), or a Cell that wire_with_route4 made
CellRef(xy) == [ref |-> TRUE, cell |-> Route4Cell(xy[1], xy[2])]
CellObj(cell) == [ref |-> FALSE, cell |-> cell]

RECURSIVE flat_bits(_, _)
\* the bits of the buses from the k-th on, in dict order: (name, b_idx, src)
flat_bits(buses, k) ==
    IF k > Len(buses) THEN <<>>
    ELSE [b \in 1 .. Len(buses[k].bits) |->
             [name |-> buses[k].name, b_idx |-> b - 1, src |-> buses[k].bits[b]]]
         \o flat_bits(buses, k + 1)

\* side_for_input / side_for_output: the bus's entry of the map, else the default
side_for(name, side_map, side) ==
    IF name \in DOMAIN side_map THEN side_map[name] ELSE side

\* the counters next_pos_by_side_in / next_pos_by_side: the k-th bit gets the
\* number of earlier bits of the same list bound to its side
next_pos(flat, side_map, side, k) ==
    Cardinality({j \in 1 .. k - 1 :
                    side_for(flat[j].name, side_map, side)
                        = side_for(flat[k].name, side_map, side)})

\* in_pos and pos_by_key: (name, b_idx) -> (side, pos)
assign_pos(buses, side_map, side) ==
    LET flat == flat_bits(buses, 1)
    IN  [key \in {<<flat[k].name, flat[k].b_idx>> : k \in 1 .. Len(flat)} |->
            LET k == CHOOSE j \in 1 .. Len(flat) : <<flat[j].name, flat[j].b_idx>> = key
            IN  [side |-> side_for(key[1], side_map, side),
                 pos |-> next_pos(flat, side_map, side, k)]]

\* the bits of the bus list bound to side s
need(buses, side_map, side, s) ==
    Cardinality({k \in 1 .. Len(flat_bits(buses, 1)) :
                    side_for(flat_bits(buses, 1)[k].name, side_map, side) = s})

Max2(a, b) == IF a >= b THEN a ELSE b
Even(n) == IF n % 2 = 0 THEN n ELSE n + 1

RECURSIVE route4_loop(_, _, _)
\* the loop of wire_with_route4 over path from its i-th cell: each cell is
\* occupied and a new ROUTE4 Cell passes the pin it was entered by straight on
route4_loop(ls, path, i) ==
    IF i > Len(path) \/ ls.error # "" THEN ls
    ELSE LET nxt == path[i]
             direction == dir_from_delta(nxt[1] - ls.cur[1], nxt[2] - ls.cur[2])
         IN  IF direction = "" THEN [ls EXCEPT !.error = "Non-adjacent hop encountered"]
             ELSE route4_loop(
                      [R |-> occupy(ls.R, nxt[1], nxt[2]),
                       cur |-> nxt,
                       prev_src |-> CellSrc(nxt[1], nxt[2], pin_map[direction]),
                       cells |-> Append(ls.cells,
                                    CellObj([Route4Cell(nxt[1], nxt[2]) EXCEPT
                                                !.inputs[pin_map[opposite[direction]]] = ls.prev_src,
                                                !.luts = route_luts(direction, opposite[direction])])),
                       last_dir |-> direction,
                       error |-> ""],
                      path, i + 1)

\* wire_with_route4(src_cell, dst_cell) -> (cells, last_dir)
wire_with_route4(R, src_cell, dst_cell) ==
    Strict(LAMBDA rt :
        IF ~rt.found THEN [R |-> R, error |-> "No route found", cells |-> <<>>, last_dir |-> "E"]
        ELSE Strict(LAMBDA ls : [R |-> ls.R, error |-> ls.error, cells |-> ls.cells,
                                 last_dir |-> ls.last_dir],
                    route4_loop(hop_start(R, src_cell, CellSrc(src_cell[1], src_cell[2], 0), <<>>),
                                rt.path, 1)),
        route(R, src_cell, dst_cell, {}))

\* on_edge and desired_pos_matches: the cell sits on edge `side` at position pos
at_edge_pos(side, pos, sx, sy, W, H) ==
    /\ \/ side = "W" /\ sx = 0
       \/ side = "E" /\ sx = W - 1
       \/ side = "N" /\ sy = 0
       \/ side = "S" /\ sy = H - 1
    /\ \/ side \in {"W", "E"} /\ sy = pos
       \/ side \in {"N", "S"} /\ sx = pos

\* align_parity: one extra hop when the start cell has the sink's parity
parity_extra(side, pos, sx, sy, W, H) ==
    LET start == CASE side = "W" -> <<0, pos>>
                   [] side = "E" -> <<W - 1, pos>>
                   [] side = "N" -> <<pos, 0>>
                   [] side = "S" -> <<pos, H - 1>>
    IN  IF (start[1] + start[2]) % 2 = (sx + sy) % 2 THEN 1 ELSE 0

\* lines 105-117: after wire_from_edge_to returned w, land on the neighbour
\* that faces pin i and rewrite the sink's input
land_on_pin(ps, w, k, i) ==
    LET sink == ps.cells[k]
        desired == <<sink.x + delta[IDX_TO_DIR[i]][1], sink.y + delta[IDX_TO_DIR[i]][2]>>
        done(R, cells, last_dir, last_xy) ==
            [ps EXCEPT !.R = R,
                       !.new_cells = @ \o cells,
                       !.cells[k].inputs[i] = CellSrc(last_xy[1], last_xy[2], pin_map[last_dir]),
                       !.rewired = @ \cup {<<k, i>>}]
        refs == [j \in 1 .. Len(w.cells) |-> CellRef(w.cells[j])]
    IN  IF in_grid(w.R, desired[1], desired[2]) /\ w.last_xy # desired
        THEN Strict(LAMBDA a :
                      IF a.error # "" THEN [ps EXCEPT !.R = a.R, !.error = a.error]
                      ELSE done(a.R, refs \o a.cells, opposite[IDX_TO_DIR[i]], desired),
                    wire_with_route4(w.R, w.last_xy, desired))
        ELSE done(w.R, refs, w.last_dir, w.last_xy)

\* the body of the loop over sink.inputs (lines 66-117) for input i of cell k
drive_input(ps, in_pos, k, i) ==
    LET sink == ps.cells[k]
        src == sink.inputs[i]
    IN  IF ps.error # "" \/ src.type # "input" THEN ps
        ELSE LET at == in_pos[<<src.name, src.bit>>]
             IN  IF IDX_TO_DIR[i] = at.side
                    /\ at_edge_pos(at.side, at.pos, sink.x, sink.y, ps.R.W, ps.R.H)
                 THEN ps
                 ELSE Strict(LAMBDA w :
                               IF w.error # "" THEN [ps EXCEPT !.R = w.R, !.error = w.error]
                               ELSE land_on_pin(ps, w, k, i),
                             wire_from_edge_to(ps.R, at.side, at.pos, <<sink.x, sink.y>>,
                                               parity_extra(at.side, at.pos, sink.x, sink.y,
                                                            ps.R.W, ps.R.H)))

RECURSIVE drive_inputs(_, _, _)
\* for sink in prog.cells: for i, src in enumerate(sink.inputs): ...
drive_inputs(ps, in_pos, n) ==
    IF n >= 4 * Len(ps.cells) THEN ps
    ELSE drive_inputs(Strict(LAMBDA v : v, drive_input(ps, in_pos, (n \div 4) + 1, n % 4)),
                      in_pos, n + 1)

\* the body of the loop over flat_outputs (lines 135-152) for its k-th bit
expose_output(ps, flat, out_pos, k) ==
    LET bsrc == flat[k].src
        at == out_pos[<<flat[k].name, flat[k].b_idx>>]
    IN  IF ps.error # "" \/ bsrc.type # "cell" THEN ps
        ELSE IF bsrc.out = pin_map[at.side]
                /\ at_edge_pos(at.side, at.pos, bsrc.x, bsrc.y, ps.R.W, ps.R.H)
        THEN ps
        ELSE Strict(LAMBDA w :
                      IF w.error # "" THEN [ps EXCEPT !.R = w.R, !.error = w.error]
                      ELSE [ps EXCEPT !.R = w.R,
                                      !.new_cells = @ \o [j \in 1 .. Len(w.cells) |->
                                                             CellRef(w.cells[j])]],
                    wire_to_edge_from(ps.R, <<bsrc.x, bsrc.y>>, at.side, at.pos, bsrc.out, 0))

RECURSIVE expose_outputs(_, _, _, _)
expose_outputs(ps, flat, out_pos, k) ==
    IF k > Len(flat) THEN ps
    ELSE expose_outputs(Strict(LAMBDA v : v, expose_output(ps, flat, out_pos, k)),
                        flat, out_pos, k + 1)

\* physicalize_to_edges(prog, input_side, output_side, input_side_map) with
\* the other arguments at their defaults: the Program returned, or the
\* exception; in_pos and pos_by_key as assigned, and the pins rewritten
physicalize_to_edges(prog, input_side, output_side, input_side_map) ==
    LET nd(s) == need(prog.input_bits, input_side_map, input_side, s)
                 + need(prog.output_bits, <<>>, output_side, s)
        W == Even(Max2(prog.width, Max2(nd("N"), nd("S"))))
        H == Even(Max2(prog.height, Max2(nd("W"), nd("E"))))
        in_pos == assign_pos(prog.input_bits, input_side_map, input_side)
        out_pos == assign_pos(prog.output_bits, <<>>, output_side)
    IN  Strict(LAMBDA ps :
            [error |-> ps.error,
             in_pos |-> in_pos,
             out_pos |-> out_pos,
             rewired |-> ps.rewired,
             program |-> [width |-> W, height |-> H,
                          cells |-> ps.cells \o
                                    [j \in 1 .. Len(ps.new_cells) |->
                                        IF ps.new_cells[j].ref
                                        THEN ps.R.route_cells[<<ps.new_cells[j].cell.x,
                                                                ps.new_cells[j].cell.y>>]
                                        ELSE ps.new_cells[j].cell],
                          input_bits |-> prog.input_bits,
                          output_bits |-> prog.output_bits]],
            Strict(LAMBDA ps1 : expose_outputs(ps1, flat_bits(prog.output_bits, 1), out_pos, 1),
                   drive_inputs([R |-> occupy_all(NewRouter(W, H), prog.cells, 1),
                                 cells |-> prog.cells, new_cells |-> <<>>,
                                 rewired |-> {}, error |-> ""],
                                in_pos, 0)))

\* grid_from_program(prog, strict=True) for a Program given by its cell list:
\* the ValueError of the adjacency test, else the LUTs per coordinate, a later
\* cell of the list replacing an earlier one at the same coordinate (add_cell)
grid_of_cells(prog) ==
    LET far(c) == \E i \in 0 .. 3 :
                     /\ c.inputs[i].type = "cell"
                     /\ manhattan(<<c.inputs[i].x, c.inputs[i].y>>, <<c.x, c.y>>) > 1
        at(xy) == {k \in 1 .. Len(prog.cells) : <<prog.cells[k].x, prog.cells[k].y>> = xy}
    IN  IF \E k \in 1 .. Len(prog.cells) : far(prog.cells[k])
        THEN [error |-> "Non-neighbor input found", cells |-> <<>>]
        ELSE [error |-> "",
              cells |-> [xy \in GridCells(prog.width, prog.height) |->
                            IF at(xy) = {} THEN [i \in 0 .. 3 |-> 0]
                            ELSE LET k == CHOOSE j \in at(xy) : \A m \in at(xy) : m <= j
                                 IN  [i \in 0 .. 3 |-> prog.cells[k].luts[i] % 65536]]]

\* LUTOnlyEmulator.step on a grid of W x H: the input of cell (x,y) on side d
\* is the neighbour's output towards it, or the edge input where there is none
side_input(W, H, o, ein, x, y, d) ==
    LET nx == x + delta[d][1]
        ny == y + delta[d][2]
    IN  IF 0 <= nx /\ nx < W /\ 0 <= ny /\ ny < H
        THEN o[<<nx, ny>>][pin_map[opposite[d]]]
        ELSE ein[d][IF d \in {"N", "S"} THEN x ELSE y]

\* outs after one step() at counter c
grid_step(W, H, g, o, c, ein) ==
    [xy \in GridCells(W, H) |->
        IF (xy[1] + xy[2]) % 2 = c % 2
        THEN eval_cell(g[xy], [i \in 0 .. 3 |-> side_input(W, H, o, ein, xy[1], xy[2], IDX_TO_DIR[i])])
        ELSE o[xy]]

\* edge_out[side][pos] as step() returns it
edge_out_at(W, H, o, side, pos) ==
    CASE side = "N" -> o[<<pos, 0>>][0]
      [] side = "E" -> o[<<W - 1, pos>>][1]
      [] side = "S" -> o[<<pos, H - 1>>][2]
      [] side = "W" -> o[<<0, pos>>][3]

\* the edge inputs that carry the bus values: bit (name, b) at its in_pos
edge_in_of(W, H, in_pos, inputs) ==
    [d \in Dirs |->
        [p \in 0 .. (IF d \in {"N", "S"} THEN W ELSE H) - 1 |->
            IF \E key \in DOMAIN in_pos : in_pos[key] = [side |-> d, pos |-> p]
            THEN LET key == CHOOSE q \in DOMAIN in_pos : in_pos[q] = [side |-> d, pos |-> p]
                 IN  Bit(inputs[key[1]], key[2])
            ELSE 0]]

\* Emulator.run_stream: src_value(src, inputs)
src_value(src, inputs, cell_out) ==
    CASE src.type = "const" -> src.value % 2
      [] src.type = "input" -> IF src.name \in DOMAIN inputs THEN Bit(inputs[src.name], src.bit) ELSE 0
      [] src.type = "cell" -> IF <<src.x, src.y>> \in DOMAIN cell_out
                              THEN cell_out[<<src.x, src.y>>][src.out] % 2 ELSE 0
      [] OTHER -> 0

\* the outs of one cell of the logical Program
cell_outs(c, inputs, cell_out) ==
    LET a == src_value(c.inputs[0], inputs, cell_out)
        b == src_value(c.inputs[1], inputs, cell_out)
        cin == src_value(c.inputs[2], inputs, cell_out)
        w == src_value(c.inputs[3], inputs, cell_out)
        z == [i \in 0 .. 3 |-> 0]
    IN  CASE c.op = "BUF" -> [z EXCEPT ![0] = a]
          [] c.op = "NOT" -> [z EXCEPT ![0] = 1 - a]
          [] c.op = "AND" -> [z EXCEPT ![0] = a * b]
          [] c.op = "OR" -> [z EXCEPT ![0] = a + b - a * b]
          [] c.op = "XOR" -> [z EXCEPT ![0] = (a + b) % 2]
          [] c.op = "ADD_BIT" -> [z EXCEPT ![0] = (a + b + cin) % 2, ![1] = (a + b + cin) \div 2]
          [] c.op = "ROUTE4" -> eval_cell(c.luts, [i \in 0 .. 3 |-> CASE i = 0 -> a [] i = 1 -> b
                                                                  [] i = 2 -> cin [] i = 3 -> w])
          [] OTHER -> z

RECURSIVE run_cycle(_, _, _, _, _)
\* one cycle of run_stream from the k-th cell on, at counter cyc: the cells of
\* the phase, in list order, each reading the outs written before it
run_cycle(prog, inputs, cell_out, cyc, k) ==
    IF k > Len(prog.cells) THEN cell_out
    ELSE LET c == prog.cells[k]
         IN  run_cycle(prog, inputs,
                       IF (c.x + c.y) % 2 = cyc % 2
                       THEN [cell_out EXCEPT ![<<c.x, c.y>>] = cell_outs(c, inputs, cell_out)]
                       ELSE cell_out,
                       cyc, k + 1)

\* what the two machines are given per step: the values of the input buses
PhBusValues == {0, 1}

\* the Programs physicalized: one cell at xy passes the pin that reads bit 0
\* of bus a on to output `out`, which is bit 0 of bus y
OneCellProgram(xy, pin, out) ==
    [width |-> 2, height |-> 2,
     cells |-> <<LogicCell(xy[1], xy[2],
                           [i \in 0 .. 3 |-> IF i = pin THEN InputSrc("a", 0) ELSE Const0],
                           route_luts(IDX_TO_DIR[out], IDX_TO_DIR[pin]))>>,
     input_bits |-> <<[name |-> "a", bits |-> <<InputSrc("a", 0)>>]>>,
     output_bits |-> <<[name |-> "y", bits |-> <<CellSrc(xy[1], xy[2], out)>>]>>]

\* the same with a second bus b on the next pin, which the cell does not use
TwoBusProgram(xy, pin, out) ==
    [OneCellProgram(xy, pin, out) EXCEPT
        !.cells[1].inputs[(pin + 1) % 4] = InputSrc("b", 0),
        !.input_bits = @ \o <<[name |-> "b", bits |-> <<InputSrc("b", 0)>>]>>]

PhCalls ==
    {[prog |-> OneCellProgram(xy, pin, out), input_side |-> si, output_side |-> so,
      input_side_map |-> <<>>] :
        xy \in GridCells(2, 2), pin \in 0 .. 3, out \in 0 .. 3, si \in Dirs, so \in Dirs}
    \cup
    {[prog |-> TwoBusProgram(<<0, 0>>, pin, 1), input_side |-> si, output_side |-> "E",
      input_side_map |-> m] :
        pin \in {0, 3}, si \in Dirs, m \in {<<>>} \cup {[n \in {"b"} |-> s] : s \in Dirs}}

PhInit ==
    /\ ph_prog \in PhCalls
    /\ ph_call = [op |-> "none"]
    /\ ph_emu = [op |-> "none"]
    /\ EmuIdle
    /\ BsIdle
    /\ PrIdle
    /\ RtIdle
    /\ BarIdle
    /\ FrIdle
    /\ SrvIdle

\* phys = physicalize_to_edges(copy.deepcopy(prog), input_side, output_side, input_side_map)
Physicalize ==
    /\ ph_call.op = "none"
    /\ \E r \in {physicalize_to_edges(ph_prog.prog, ph_prog.input_side, ph_prog.output_side,
                                      ph_prog.input_side_map)} :
           ph_call' = [op |-> "physicalize", error |-> r.error, program |-> r.program,
                       in_pos |-> r.in_pos, out_pos |-> r.out_pos, rewired |-> r.rewired]
    /\ UNCHANGED <<ph_prog, ph_emu>>
    /\ UNCHANGED notPhVars

\* emu = LUTOnlyEmulator(grid_from_program(phys)); logical = Emulator(prog)
BuildMachines ==
    /\ ph_call.op = "physicalize" /\ ph_call.error = ""
    /\ ph_emu.op = "none"
    /\ \E g \in {grid_of_cells(ph_call.program)} :
           ph_emu' = [op |-> "built", error |-> g.error, grid |-> g.cells,
                      outs |-> [xy \in GridCells(ph_call.program.width, ph_call.program.height) |->
                                   [i \in 0 .. 3 |-> 0]],
                      cycle |-> 0,
                      cell_out |-> [xy \in {<<ph_prog.prog.cells[k].x, ph_prog.prog.cells[k].y>> :
                                               k \in 1 .. Len(ph_prog.prog.cells)} |->
                                       [i \in 0 .. 3 |-> 0]],
                      steps |-> <<>>, phys |-> <<>>, logical |-> <<>>]
    /\ UNCHANGED <<ph_prog, ph_call>>
    /\ UNCHANGED notPhVars

\* emu.step(edge_in) and logical.run_stream([inputs], cycles_per_step=1,
\* reset=False) with the same bus values; the output bits of both are kept
StepBoth ==
    /\ ph_emu.op \in {"built", "step"} /\ ph_emu.error = ""
    /\ Len(ph_emu.phys) < MaxPhSteps
    /\ \E inputs \in [{ph_prog.prog.input_bits[k].name : k \in 1 .. Len(ph_prog.prog.input_bits)}
                        -> PhBusValues] :
           LET W == ph_call.program.width
               H == ph_call.program.height
               o == grid_step(W, H, ph_emu.grid, ph_emu.outs, ph_emu.cycle,
                              edge_in_of(W, H, ph_call.in_pos, inputs))
               co == run_cycle(ph_prog.prog, inputs, ph_emu.cell_out, ph_emu.cycle, 1)
               flat == flat_bits(ph_prog.prog.output_bits, 1)
           IN  ph_emu' = [ph_emu EXCEPT
                   !.op = "step",
                   !.outs = o,
                   !.cell_out = co,
                   !.cycle = @ + 1,
                   !.steps = Append(@, inputs),
                   !.phys = Append(@, [k \in 1 .. Len(flat) |->
                                LET at == ph_call.out_pos[<<flat[k].name, flat[k].b_idx>>]
                                IN  edge_out_at(W, H, o, at.side, at.pos)]),
                   !.logical = Append(@, [k \in 1 .. Len(flat) |->
                                src_value(flat[k].src, inputs, co)])]
    /\ UNCHANGED <<ph_prog, ph_call>>
    /\ UNCHANGED notPhVars

PhNext ==
    \/ Physicalize
    \/ BuildMachines
    \/ StepBoth

SpecPhys == PhInit /\ [][PhNext]_vars

\* the bus bits with the side and position physicalize_to_edges gave them
Placed ==
    {[io |-> "in", key |-> k, at |-> ph_call.in_pos[k]] : k \in DOMAIN ph_call.in_pos}
    \cup {[io |-> "out", key |-> k, at |-> ph_call.out_pos[k]] : k \in DOMAIN ph_call.out_pos}

\* C25: physicalize_to_edges gives no two distinct bus bits bound to the same
\* side the same position, input bits and output bits counted together,
\* whatever sides the buses are bound to
C25_EdgePositionsAreUnique ==
    ph_call.op = "physicalize" =>
        \A p \in Placed, q \in Placed : (p # q /\ p.at.side = q.at.side) => p.at.pos # q.at.pos

\* a call that binds an input bus and an output bus to the same side
C25_Witness ==
    /\ ph_call.op = "physicalize"
    /\ \E p \in Placed, q \in Placed : p.io = "in" /\ q.io = "out" /\ p.at.side = q.at.side

\* the LUTs of the cells of the Program at coordinate xy
luts_at(program, xy) ==
    {program.cells[k].luts : k \in {j \in 1 .. Len(program.cells) :
                                       <<program.cells[j].x, program.cells[j].y>> = xy}}

\* pin i of sink k reads the neighbour on the side of the pin, on the output
\* that faces the sink, and that output is driven
reads_pin_side_neighbour(program, k, i) ==
    LET sink == program.cells[k]
        src == sink.inputs[i]
        d == IDX_TO_DIR[i]
    IN  /\ src.type = "cell"
        /\ <<src.x, src.y>> = <<sink.x + delta[d][1], sink.y + delta[d][2]>>
        /\ src.out = pin_map[opposite[d]]
        /\ \E l4 \in luts_at(program, <<src.x, src.y>>) : l4[src.out] # 0

\* C24: after physicalize_to_edges every sink pin rewired from a bus input
\* reads the cell adjacent to the sink on the side of that pin (N pin the cell
\* above, E pin the cell to the right, S pin the cell below, W pin the cell to
\* the left), with out the direction from that cell to the sink, and that
\* cell's LUT for this output is non-zero
C24_RewiredPinReadsItsNeighbour ==
    (ph_call.op = "physicalize" /\ ph_call.error = "") =>
        \A r \in ph_call.rewired : reads_pin_side_neighbour(ph_call.program, r[1], r[2])

\* a pin was rewired by a call that returned
C24_Witness ==
    /\ ph_call.op = "physicalize"
    /\ ph_call.error = ""
    /\ ph_call.rewired # {}

\* the edge outputs repeat the logical outputs L steps later
follows_by(phys, logical, L) ==
    \A t \in 1 .. Len(logical) - L : phys[t + L] = logical[t]

\* C22: the LUT-only machine built from physicalize_to_edges(P), driven through
\* the edge positions of the input buses, shows at the edge positions of the
\* output buses what the logical Emulator computes for P from the same bus
\* inputs, a fixed number of steps later
C22_PhysicalMachineFollowsTheEmulator ==
    (ph_emu.op = "step" /\ Len(ph_emu.phys) = MaxPhSteps) =>
        \E L \in 0 .. MaxPhSteps - 2 : follows_by(ph_emu.phys, ph_emu.logical, L)

\* both machines ran all the steps and the Emulator's output was 1 at the first
C22_Witness ==
    /\ ph_emu.op = "step"
    /\ Len(ph_emu.phys) = MaxPhSteps
    /\ ph_emu.logical[1] = <<1>>

(***************************************************************************)
(* The op tag of a cell that carries params.luts (bitgrid/emulator.py      *)
(* run_stream; bitgrid/bitstream.py apply_luts_to_program appends cells    *)
(* with op 'LUT')                                                          *)
(***************************************************************************)
\* the LUTs the twin cells hold: a route, a constant 1 on one output, an XOR
\* of pins N and E on two outputs, and all zero
TagLuts ==
    {route_luts("E", "W"),
     [i \in 0 .. 3 |-> IF i = 0 THEN 65535 ELSE 0],
     [i \in 0 .. 3 |-> IF i \in {1, 2} THEN 26214 ELSE 0],
     [i \in 0 .. 3 |-> 0]}

\* one cell at xy whose four inputs read bits 0..3 of bus a, tagged op
TagProgram(xy, op, l4) ==
    [width |-> 2, height |-> 2,
     cells |-> <<[x |-> xy[1], y |-> xy[2], op |-> op,
                  inputs |-> [i \in 0 .. 3 |-> InputSrc("a", i)], luts |-> l4]>>,
     input_bits |-> <<[name |-> "a", bits |-> [b \in 1 .. 4 |-> InputSrc("a", b - 1)]]>>,
     output_bits |-> <<[name |-> "y", bits |-> [b \in 1 .. 4 |-> CellSrc(xy[1], xy[2], b - 1)]]>>]

\* two Emulators on Programs that differ in the op tag of their cell only
TagInit ==
    /\ \E xy \in GridCells(2, 2), l4 \in TagLuts :
           ph_prog = [tagged_lut |-> TagProgram(xy, "LUT", l4),
                      tagged_route4 |-> TagProgram(xy, "ROUTE4", l4)]
    /\ ph_call = [op |-> "none"]
    /\ ph_emu = [op |-> "none", cycle |-> 0,
                 out_lut |-> [i \in 0 .. 3 |-> 0], out_route4 |-> [i \in 0 .. 3 |-> 0]]
    /\ EmuIdle
    /\ BsIdle
    /\ PrIdle
    /\ RtIdle
    /\ BarIdle
    /\ FrIdle
    /\ SrvIdle

\* run_stream([inputs], cycles_per_step=1, reset=False) on both Emulators
TagStep ==
    /\ ph_emu.cycle < MaxPhSteps
    /\ \E a \in 0 .. 15 :
           LET inputs == [n \in {"a"} |-> a]
               xy == <<ph_prog.tagged_lut.cells[1].x, ph_prog.tagged_lut.cells[1].y>>
               run(prog, o) == run_cycle(prog, inputs, [c \in {xy} |-> o], ph_emu.cycle, 1)[xy]
           IN  ph_emu' = [op |-> "run_stream", cycle |-> ph_emu.cycle + 1,
                          out_lut |-> run(ph_prog.tagged_lut, ph_emu.out_lut),
                          out_route4 |-> run(ph_prog.tagged_route4, ph_emu.out_route4)]
    /\ UNCHANGED <<ph_prog, ph_call>>
    /\ UNCHANGED notPhVars

TagNext == TagStep

SpecTag == TagInit /\ [][TagNext]_vars

\* C32: the logical Emulator evaluates a cell that carries params.luts from
\* those LUTs whatever its op tag: a cell tagged LUT and a cell tagged ROUTE4
\* with the same LUTs and inputs have the same outputs after every subcycle
C32_OpTagDoesNotChangeOutputs ==
    ph_emu.op = "run_stream" => ph_emu.out_lut = ph_emu.out_route4

\* the twin with op ROUTE4 drove an output to 1
C32_Witness ==
    /\ ph_emu.op = "run_stream"
    /\ \E i \in 0 .. 3 : ph_emu.out_route4[i] = 1

(***************************************************************************)
(* Two tiles, each with a NeighborBarrier that expects the other           *)
(* (b_left and b_right of cli/demo_two_tile_loop.py), reports in flight    *)
(***************************************************************************)
Tiles == {"L", "R"}
\* the side of tile t its neighbour sits on, and the neighbour
TileSide == [t \in Tiles |-> IF t = "L" THEN "E" ELSE "W"]
OtherTile == [t \in Tiles |-> IF t = "L" THEN "R" ELSE "L"]

TilesInit ==
    /\ barrier = [t \in Tiles |-> IF t = "L" THEN NeighborBarrier(FALSE, TRUE, FALSE, FALSE)
                                  ELSE NeighborBarrier(FALSE, FALSE, FALSE, TRUE)]
    /\ bar_call = [op |-> "none", net |-> {}]
    /\ EmuIdle
    /\ BsIdle
    /\ PrIdle
    /\ RtIdle
    /\ SrvIdle
    /\ FrIdle
    /\ PhIdle

\* tile t finished its current (epoch, phase): b.local_done()
TileLocalDone(t) ==
    /\ current(barrier[t]) \notin barrier[t].local_done
    /\ barrier' = [barrier EXCEPT ![t] = local_done(@)]
    /\ bar_call' = [bar_call EXCEPT !.op = "local_done"]
    /\ UNCHANGED notBarVars

\* tile t sends its neighbour the header of its current (epoch, phase), before
\* its own local_done (as the left tile's frame is) or after it
TileReport(t) ==
    /\ LET m == [to |-> OtherTile[t], direction |-> TileSide[OtherTile[t]],
                 epoch |-> barrier[t].state.epoch, phase |-> barrier[t].state.phase]
       IN  /\ m \notin bar_call.net
           /\ <<m.epoch, m.phase, m.direction>> \notin barrier[m.to].neighbor_flags
           /\ bar_call' = [op |-> "report", net |-> bar_call.net \cup {m}]
    /\ UNCHANGED barrier
    /\ UNCHANGED notBarVars

\* a report in flight arrives, whichever it is: mark_neighbor_header (as the
\* right tile takes it) or mark_neighbor_done (as the left tile does)
TileDeliver(t) ==
    \E m \in {n \in bar_call.net : n.to = t}, as_header \in BOOLEAN :
        /\ barrier' = [barrier EXCEPT ![t] =
                          IF as_header
                          THEN mark_neighbor_header(@, m.direction, m.epoch, m.phase).B
                          ELSE mark_neighbor_done(@, m.direction, m.epoch, m.phase)]
        /\ bar_call' = [op |-> "deliver", net |-> bar_call.net \ {m}]
        /\ UNCHANGED notBarVars

\* b.advance(), at any time
TileAdvance(t) ==
    /\ barrier[t].state.epoch <= MaxEpoch
    /\ barrier' = [barrier EXCEPT ![t] = advance(@)]
    /\ bar_call' = [bar_call EXCEPT !.op = "advance"]
    /\ UNCHANGED notBarVars

TilesNext ==
    \E t \in Tiles :
        \/ TileLocalDone(t)
        \/ TileReport(t)
        \/ TileDeliver(t)
        \/ TileAdvance(t)

SpecTiles == TilesInit /\ [][TilesNext]_vars

\* the number of phase steps a barrier has made
phase_steps(B) == 2 * B.state.epoch + (IF B.state.phase = "B" THEN 1 ELSE 0)

\* C40: two tiles, each with a NeighborBarrier that expects the other, each
\* calling local_done and reporting done to the other only for its own current
\* (epoch, phase), with reports delivered in any order and after any delay,
\* are never more than one phase step apart
C40_TilesStayWithinOnePhaseStep ==
    LET d == phase_steps(barrier["L"]) - phase_steps(barrier["R"])
    IN  -1 <= d /\ d <= 1

\* one tile is a phase step ahead of the other, past the first epoch, with a
\* report still in flight
C40_Witness ==
    /\ phase_steps(barrier["L"]) = phase_steps(barrier["R"]) + 1
    /\ barrier["R"].state.epoch >= 1
    /\ bar_call.net # {}

\* the coordinate of cell k of a Program
cell_xy(program, k) == <<program.cells[k].x, program.cells[k].y>>

\* C34: in the Program returned by physicalize_to_edges no two cells have the
\* same (x, y): every appended ROUTE4 cell sits on a coordinate that holds no
\* other cell of the Program
C34_ReturnedCellsHaveDistinctCoordinates ==
    (ph_call.op = "physicalize" /\ ph_call.error = "") =>
        \A i, j \in 1 .. Len(ph_call.program.cells) :
            i # j => cell_xy(ph_call.program, i) # cell_xy(ph_call.program, j)

\* a call returned a Program with ROUTE4 cells appended to the cells given
C34_Witness ==
    /\ ph_call.op = "physicalize"
    /\ ph_call.error = ""
    /\ Len(ph_call.program.cells) > Len(ph_prog.prog.cells)

(***************************************************************************)
(* The router's pass: where ROUTE4 cells are created, and what a raising   *)
(* call leaves behind                                                      *)
(***************************************************************************)
\* the coordinates that hold a ROUTE4 cell of the pass (_route_cells)
route4_coords(R) == DOMAIN R.route_cells

\* the three edge wiring calls
EdgeWireOps == {"wire_from_edge_to", "wire_to_edge_from", "wire_edge_to_edge"}

\* the call that made this step raised
raised(call) == call.error \notin {"", "does not return"}

\* C35: the router never creates a ROUTE4 cell at a coordinate that was marked
\* occupied: every ROUTE4 cell a wire_* call adds to the pass lies on a
\* coordinate that was free before the call, the start and target cells of
\* edge routes included
C35_Route4CellsOnlyOnFreeCoordinates ==
    [][\A xy \in route4_coords(router') \ route4_coords(router) : xy \notin router.occ]_vars

\* an edge wiring call returned on a grid that holds compute cells and left
\* ROUTE4 cells behind
C35_Witness ==
    /\ rt_call.op \in EdgeWireOps
    /\ rt_call.error = ""
    /\ (RtSrcCells \cup RtDstCells) \subseteq router.occ
    /\ route4_coords(router) # {}

\* C36: a wire_from_edge_to, wire_to_edge_from or wire_edge_to_edge call that
\* raises leaves the router's occupancy grid, its ROUTE4 map and its fanout
\* index exactly as they were before the call
C36_RaisingCallLeavesRouterUnchanged ==
    [][(rt_call'.op \in EdgeWireOps /\ raised(rt_call')) => router' = router]_vars

\* an edge wiring call has raised after an earlier call of the pass
C36_Witness ==
    /\ rt_call.op \in EdgeWireOps
    /\ raised(rt_call)
    /\ rt_call.n >= 2

(***************************************************************************)
(* The hop list of wire_from_edge_to, for an ingress on any side           *)
(***************************************************************************)
\* wire_from_edge_to up to `hops = pre_hops + core[:-1]`: the start cell
\* followed by the hop list, empty where the call raises before the list is
\* built
ingress_hops(R, side, pos, dst_cell, extra_hops) ==
    LET start == edge_start(R, side, pos)
        avoid_moves == edge_avoid_moves(R, side)
    IN  Strict(LAMBDA sm :
            IF sm.error # "" THEN <<>>
            ELSE Strict(LAMBDA pre :
                     Strict(LAMBDA rt :
                         IF ~rt.found THEN <<>>
                         ELSE <<start>> \o pre.hops \o ButLast(rt.path),
                         core_route(sm.R, start,
                                    IF pre.first # <<>> THEN pre.first[1]
                                    ELSE IF pre.hops # <<>> THEN Last(pre.hops) ELSE start,
                                    IF pre.hops # <<>> THEN Last(pre.hops) ELSE start,
                                    dst_cell, avoid_moves)),
                     edge_pre_hops(sm.R, start, side, pos, dst_cell, extra_hops, sm.chosen)),
            start_mapping(R, start, side, pos))

\* the move a -> b goes from the cell one position inside the ingress side
\* back onto that side: the moves `avoid_moves` is built to forbid
retrograde(R, side, a, b) ==
    CASE side = "W" -> a[1] = 1 /\ b[1] = 0 /\ a[2] = b[2]
      [] side = "E" -> a[1] = R.W - 2 /\ b[1] = R.W - 1 /\ a[2] = b[2]
      [] side = "N" -> a[2] = 1 /\ b[2] = 0 /\ a[1] = b[1]
      [] side = "S" -> a[2] = R.H - 2 /\ b[2] = R.H - 1 /\ a[1] = b[1]

IngressInit ==
    /\ \E placed \in BOOLEAN :
           router = [NewRouter(RtW, RtH) EXCEPT
                        !.occ = IF placed THEN RtSrcCells \cup RtDstCells ELSE {}]
    /\ rt_prog = <<>>
    /\ rt_call = [op |-> "none", n |-> 0, error |-> "", side |-> "", hops |-> <<>>]
    /\ rp_prog = <<>>
    /\ rp_call = <<>>
    /\ EmuIdle
    /\ BsIdle
    /\ PrIdle
    /\ BarIdle
    /\ FrIdle
    /\ PhIdle
    /\ SrvIdle

\* router.wire_from_edge_to(side, pos, dst_cell, extra_hops) from any edge
\* position; the hop list it built is kept beside the call
IngressWire ==
    /\ RtReady
    /\ \E side \in Dirs, pos \in 0 .. RtW - 1, dst \in RtDstCells, extra_hops \in RtExtraHops :
           \E r \in {wire_from_edge_to(router, side, pos, dst, extra_hops)} :
               /\ router' = r.R
               /\ rt_call' = [op |-> "wire_from_edge_to", n |-> rt_call.n + 1,
                              error |-> r.error, side |-> side,
                              hops |-> ingress_hops(router, side, pos, dst, extra_hops)]
               /\ UNCHANGED rt_prog
               /\ UNCHANGED notRtVars

IngressNext == IngressWire

SpecIngress == IngressInit /\ [][IngressNext]_vars

\* C33: the hop list built by wire_from_edge_to never steps from the cell one
\* position inside the ingress side back onto that side, whatever the
\* occupancy and the destination, also when the first routing attempt failed
\* and the route was computed again
C33_NoRetrogradeBoundaryMove ==
    rt_call.op = "wire_from_edge_to" =>
        \A i \in 1 .. Len(rt_call.hops) - 1 :
            ~retrograde(router, rt_call.side, rt_call.hops[i], rt_call.hops[i + 1])

\* a call on a grid that holds compute cells returned after at least two hops
C33_Witness ==
    /\ rt_call.op = "wire_from_edge_to"
    /\ rt_call.error = ""
    /\ Len(rt_call.hops) >= 3
    /\ (RtSrcCells \cup RtDstCells) \subseteq router.occ

(***************************************************************************)
(* The links table and the peer sockets it holds                           *)
(***************************************************************************)
\* the peer socket of link lk of server sid has not been closed by sid
sock_open(sid, lk) == conns[servers[sid].links[lk].sock].remote_open

\* C38: every link in a server's link table has an open peer socket: when
\* peer sockets are closed, by UNLINK or by the end of a client connection,
\* the links are removed from the table
C38_TableLinksHaveOpenSockets ==
    \A sid \in DOMAIN servers : \A lk \in DOMAIN servers[sid].links : sock_open(sid, lk)

\* a link was put in the table and a connection of that server has ended
\* since, while another connection of the server is still served
C38_Witness ==
    \E sid \in DOMAIN servers :
        /\ servers[sid].links # <<>>
        /\ \E c \in DOMAIN conns :
              /\ conns[c].server = sid
              /\ conns[c].pc = "exited"
              /\ Head(Handled(c)).type = "LINK"
              /\ Handled(c)[Len(Handled(c))].type = "QUIT"
        /\ \E c \in DOMAIN conns : conns[c].server = sid /\ conns[c].open

(***************************************************************************)
(* The linked branch of STEP: the link's subcycle counter, the values      *)
(* forwarded, and what may happen between run_stream and the sampling      *)
(***************************************************************************)
\* the links the linked STEP handled on c snapshotted and the table still holds
step_links(c) == conns[c].link_items \cap DOMAIN Srv(c).links

\* the handler on c has run the subcycle's run_stream in the linked branch
\* and has not sampled the outputs yet
AfterAdvance(c) == conns[c].open /\ conns[c].pc = "sample"

\* C37: for every link and every subcycle of a linked STEP, the parity of the
\* link's own subcycle counter, by which the fresh lanes are chosen, is the
\* parity of the emulator subcycle that was just executed, however many
\* steps the emulator took before the LINK and whatever forwarded or
\* unlinked STEPs were executed in between
C37_LinkParityIsEmulatorParity ==
    \A c \in DOMAIN conns :
        (OnlyClient(c) /\ AfterAdvance(c)) =>
            \A lk \in step_links(c) :
                Srv(c).links[lk].cycle % 2 = (Srv(c).cycle - 1) % 2

\* a linked STEP has run a subcycle on a server whose emulator had stepped
\* before the link was made
C37_Witness ==
    /\ OnlyClient(1)
    /\ AfterAdvance(1)
    /\ step_links(1) # {}
    /\ Len(Handled(1)) = 3
    /\ Handled(1)[1].type = "STEP"
    /\ Handled(1)[2].type = "LINK"

\* bit i of the integer n
bit_of(n, i) == (n \div Pow2(i)) % 2

\* the bits a forwarded bus value has: those of the local output bus
BusBits == 0 .. IdLanes - 1

\* link_forward == 'phase': send_val = (last_sent & ~mask) | (v & mask), with
\* mask the bits of idxA when (cyc & 1) == 0 and of idxB otherwise
phase_send(last_sent, v, cyc, idxA, idxB) ==
    LET mask == IF cyc % 2 = 0 THEN idxA ELSE idxB
        RECURSIVE Val(_)
        Val(i) == IF i \notin BusBits THEN 0
                  ELSE (IF i \in mask THEN bit_of(v, i) ELSE bit_of(last_sent, i)) * Pow2(i)
                       + Val(i + 1)
    IN  Val(0)

\* the link a LINK handled on c put in the table
link_of(c) ==
    Srv(c).links[CHOOSE lk \in DOMAIN Srv(c).links : Srv(c).links[lk].sock = LinkSock(c)]

\* the values of the SET_INPUTS frames written on connection k, in order
forwarded_values(k) ==
    LET fs == SelectSeq(conns[k].sent, LAMBDA f : f.type = "SET_INPUTS")
    IN  [i \in 1 .. Len(fs) |-> fs[i].val]

\* C31: under the phase forwarding policy the value sent for a link on a
\* subcycle of parity 0 is the value sent before with exactly the A-fresh
\* lane bits (even x+y of the seam coordinate) replaced by the freshly
\* sampled output bits, and on a subcycle of parity 1 with exactly the B-fresh
\* lane bits replaced; every other bit keeps the value sent before. Stated for
\* a server that has handled LINK, SET_INPUTS and one STEP: one value per
\* subcycle, each merged from the one before, the first from 0
C31_PhaseForwardMergesFreshLanes ==
    \A c \in DOMAIN conns :
       ( /\ OnlyClient(c)
         /\ LinkedFirst(c)
         /\ Settled(c)
         /\ Len(Handled(c)) = 3
         /\ Handled(c)[2].type = "SET_INPUTS"
         /\ Handled(c)[3].type = "STEP" /\ Handled(c)[3].flags = 0
         /\ \E lk \in DOMAIN Srv(c).links : Srv(c).links[lk].sock = LinkSock(c) )
       => LET lk == link_of(c)
              v == out_sample(Srv(c).prog, Srv(c).current_inputs, lk.local_out)
              vals == forwarded_values(LinkSock(c))
          IN  /\ Len(vals) = Handled(c)[3].val
              /\ \A i \in 1 .. Len(vals) :
                    vals[i] = phase_send(IF i = 1 THEN 0 ELSE vals[i - 1], v, i - 1,
                                         lk.idxA, lk.idxB)

\* a server whose link has A-fresh and B-fresh lanes has handled LINK,
\* SET_INPUTS west = 328 and a STEP
C31_Witness ==
    /\ OnlyClient(1)
    /\ LinkedFirst(1)
    /\ Settled(1)
    /\ Len(Handled(1)) = 3
    /\ Handled(1)[2] = SetInputsFrame("west", 328)
    /\ Handled(1)[3].type = "STEP" /\ Handled(1)[3].flags = 0
    /\ \E lk \in DOMAIN Srv(1).links :
          /\ Srv(1).links[lk].sock = LinkSock(1)
          /\ Srv(1).links[lk].idxA # {}
          /\ Srv(1).links[lk].idxB # {}

(***************************************************************************)
(* Two clients of one server that has a link to a second server            *)
(***************************************************************************)
SharedFrames ==
    {LinkFrame(1, "east", "west", "R", 0), SetInputsFrame("west", 328)}
    \cup {StepFrame(1, fl) : fl \in {0, 1}}

SharedInit ==
    /\ servers = [sid \in ServerIds |->
                    server_main(build_identity_program(IdW, IdH, IdLanes, 0))]
    /\ conns = <<accept("L", "client"), accept("L", "client")>>
    /\ EmuIdle
    /\ BsIdle
    /\ PrIdle
    /\ RtIdle
    /\ BarIdle
    /\ FrIdle
    /\ PhIdle

SharedNext ==
    \/ \E c \in DOMAIN conns, f \in SharedFrames : ClientSend(c, f)
    \/ \E c \in DOMAIN conns : HandleHello(c)
    \/ \E c \in DOMAIN conns : HandleSetInputs(c)
    \/ \E c \in DOMAIN conns : HandleStep(c)
    \/ \E c \in DOMAIN conns : AcquireLock(c)
    \/ \E c \in DOMAIN conns : RunPhase(c)
    \/ \E c \in DOMAIN conns : RunIncr(c)
    \/ \E c \in DOMAIN conns : SampleOutputs(c)
    \/ \E c \in DOMAIN conns : HandleLink(c)
    \/ \E c \in DOMAIN conns : LinkFinish(c)

SpecShared == SharedInit /\ [][SharedNext]_vars

\* what the sampling of the outputs reads: the emulator's state (the identity
\* Program has no cells, so its cycle count) and current_inputs
sampled_state(srv) == <<srv.cycle, srv.current_inputs>>

\* C39: in a linked STEP the value forwarded for a subcycle is sampled from
\* the emulator state and the inputs that subcycle produced: no STEP and no
\* SET_INPUTS of another connection takes effect between the local advance
\* and the sampling of the outputs
C39_NothingBetweenAdvanceAndSampling ==
    [][\A c \in DOMAIN conns :
          (AfterAdvance(c) /\ conns'[c].pc = "sample") =>
              sampled_state(servers'[conns[c].server]) = sampled_state(Srv(c))]_vars

\* a linked STEP has advanced the emulator and not sampled yet, and another
\* client of the same server has a frame waiting
C39_Witness ==
    \E c \in DOMAIN conns, d \in DOMAIN conns :
        /\ c # d
        /\ AfterAdvance(c)
        /\ step_links(c) # {}
        /\ conns[d].server = conns[c].server
        /\ conns[d].opener = "client"
        /\ conns[d].pc = "recv"
        /\ conns[d].inbox # <<>>

====
